---- MODULE Spec2Model ----
(***************************************************************************)
(* A model of the reactor-based network runtime of pikiwidb (src/net):     *)
(* EventLoop (per-thread loop, task inbox, timer facade, object registry), *)
(* LibeventReactor (registrations and timers), PipeObject (the self-pipe   *)
(* notifier) and the TCP objects built on them.                            *)
(*                                                                         *)
(* Threads are interleaved at the points where they touch shared state:    *)
(* the task mutex, the inbox, the self-pipe, the atomic id generators and  *)
(* running_.  Code that runs on one thread between two such points is one  *)
(* action.  An assert that fails ends the process (aborted).               *)
(***************************************************************************)
EXTENDS Integers, Sequences, FiniteSets, TLC

\* ------------------------------------------------------------------ bounds
\* closures one thread hands to Execute in a run of the model
MaxPost == 2
\* bytes the self-pipe holds before a non-blocking write is dropped
PipeCap == 1
\* largest value of the object id generator (an int in the code): ids wrap
\* from ObjIdMax to -(ObjIdMax + 1)
ObjIdMax == 4
\* largest value of the timer id generator
TimerIdMax == 1
\* ScheduleLater / ScheduleRepeatedly calls in a run of the model
MaxSched == 5
\* Cancel calls in a run of the model
MaxCancel == 2
\* ScheduleLater calls made where Cancel is followed
MaxLater == 2
\* calls of one kind made where the threads of two loops and a third thread
\* all work on the loops' tables
MaxCalls == 1

\* ---------------------------------------------------------------- universe
Threads == {"A", "B", "C"}
Loops == {"L1", "L2", "L3"}
NoLoop == "null"
NoThread == "none"
Free == "free"
\* event objects the user registers, and connections
Objs == {"o1", "o2", "o3"}
Conns == {"c1", "c2"}
\* each loop's notifier_ (a PipeObject)
Notifier(l) == "notifier_" \o l
\* the TcpListenerObj that Listen creates on a loop
Listener(l) == "listener_" \o l
Objects == Objs \cup Conns \cup {Notifier(l) : l \in Loops} \cup {Listener(l) : l \in Loops}
\* event masks: subsets of {kEventRead, kEventWrite}
kEventRead == "read"
kEventWrite == "write"
Masks == SUBSET {kEventRead, kEventWrite}

VARIABLES
  g_this_loop,  \* thread -> the loop in its thread_local slot, or NoLoop
  ctor,         \* loop -> the thread that ran its constructor, or NoThread
  aborted,      \* an assert failed: the process is gone
  actor,        \* the thread that took the last step
  running,      \* loop -> running_
  pc,           \* loop -> where its thread is in Run
  task_mutex,   \* loop -> the thread holding task_mutex_, or Free
  tasks,        \* loop -> tasks_ (the inbox)
  funcs,        \* loop -> the closures of the batch Run swapped out, not yet run
  pipe,         \* loop -> bytes in the notifier's pipe
  tpc,          \* thread -> where it is in the call it is making
  script,       \* thread -> what is left of the call it is making
  posted,       \* thread -> number of closures it has handed to Execute
  ran,          \* the Execute closures run so far, each with the thread that ran it
  fut,          \* the closures whose future is ready
  reactor,      \* loop -> reactor_ is not null
  objects,      \* loop -> objects_ of the loop: unique id -> event object
  robjects,     \* loop -> objects_ of its reactor: unique id -> watches
  uid,          \* event object -> its unique id (-1: unset)
  obj_id_generator,
  reg,          \* loop -> the Register call its thread is inside
  timerid_generator,
  timers,       \* loop -> timers_ of its reactor: timer id -> record
  sched,        \* the ScheduleLater / ScheduleRepeatedly calls made so far
  cancels,      \* the Cancel calls made so far
  fired,        \* schedule call -> times its callback was invoked
  cstate,       \* connection -> state_
  cloop,        \* connection -> loop_
  idle_timer,   \* connection -> idle_timer_
  idle_timeout_ms,
  last_active,  \* connection -> last_active_
  outbuf,       \* connection -> bytes in the bufferevent's output buffer
  now,          \* the steady clock, in units of 100 ms
  inbuf,        \* connection -> bytes in the bufferevent's input buffer
  sendret,      \* the last SendPacket call: connection, size, returned value
  trace,        \* connection -> the user callbacks invoked on it so far, in order
  ndebug,       \* the build defines NDEBUG: assert() expands to nothing
  modret,       \* the last Modify call: object, mask, returned value
  delivered     \* object -> the handler calls the reactor made on it, in order

thrVars == <<g_this_loop, ctor, ndebug, modret, delivered>>
loopVars == <<running, pc>>
inboxVars == <<task_mutex, tasks, funcs, pipe>>
cliVars == <<tpc, script, posted>>
logVars == <<ran, fut>>
regVars == <<reactor, objects, robjects, uid, obj_id_generator, reg>>
timerVars == <<timerid_generator, timers, sched, cancels, fired>>
connRest == <<cloop, idle_timer, idle_timeout_ms, last_active, outbuf, now, inbuf,
             sendret>>
connVars == <<cstate, trace, connRest>>

vars == <<thrVars, aborted, actor, loopVars, inboxVars, cliVars, logVars,
          regVars, timerVars, connVars>>

\* ------------------------------------------------------------ finite maps
Put(f, k, v) == [x \in DOMAIN f \cup {k} |-> IF x = k THEN v ELSE f[x]]
\* an erase that leaves the record where it is
Keep(f, k) == f
Drop(f, k) == [x \in DOMAIN f \ {k} |-> f[x]]
Empty == [x \in {} |-> 0]
\* std::unordered_map::insert: an existing key keeps its value
Insert(f, k, v) == IF k \in DOMAIN f THEN f ELSE Put(f, k, v)

\* ------------------------------------------------------- thread affinity
InThisLoopAlways(l, t) == TRUE
InThisLoop(l, t) == g_this_loop[t] = l
Self(t) == g_this_loop[t]

\* The thread a constructed loop lives on.
LoopThread(l) == ctor[l]

NoReg == [st |-> "none"]
\* A loop's thread is between two statements of user code: before Run or in
\* a task of the batch being run, and not inside a Register call.
LoopAtUserCode(l) == pc[l] \in {"init", "drain"} /\ reg[l] = NoReg
OwnLoopAtUserCode(t) == \A l \in Loops : ctor[l] = t => LoopAtUserCode(l)
AtUserCode(t) == tpc[t] = "idle" /\ OwnLoopAtUserCode(t)
\* The loop's thread is free to take the next step of Run.
LoopFree(l) == ctor[l] # NoThread /\ reg[l] = NoReg /\ tpc[ctor[l]] = "idle"

\* ------------------------------------------------------------------ notifier
\* PipeObject::Notify: a non-blocking one-byte write, dropped when the pipe is full.
Notify(n) == IF n < PipeCap THEN n + 1 ELSE n

\* ---------------------------------------------------------------- closures
\* A closure handed to Execute by user code: who submitted it and its number
\* in that thread's program order.
PlainTask(t, n) == [kind |-> "plain", by |-> t, seq |-> n]
\* [this, id, delay_ms, cb]() { reactor_->ScheduleLater(id, delay_ms, cb); }
ArmTask(n) == [kind |-> "arm", n |-> n]
\* [id, this]() -> bool { ... reactor_->Cancel(id) ... }
CancelTask(k) == [kind |-> "cancel", k |-> k]
\* the destroy closure of ActiveClose called by thread t
DestroyTask(c, t) == [kind |-> "destroy", conn |-> c, by |-> t]
\* create_conn of TcpListenerObj::OnNewConnection
CreateTask(c) == [kind |-> "create", conn |-> c]

EmplaceFront(q, c) == <<c>> \o q
EmplaceBack(q, c) == Append(q, c)

\* What a thread has left to do in a call that posts: script[t] is a sequence
\* of posts, each taking the mutex, appending, notifying and unlocking.
PostOp(l, c) == [op |-> "post", loop |-> l, c |-> c]

\* ------------------------------------------------------------- id generators
\* std::atomic<int>::fetch_add wraps; the int range of the model
Wrap(x, max) == IF x > max THEN -(max + 1) ELSE x

\* ------------------------------------------------------- LibeventReactor
\* The record Register creates for an object with a non-empty mask.
Watches(o, ev) ==
  [ev_obj |-> o, read |-> kEventRead \in ev, write |-> kEventWrite \in ev]

\* LibeventReactor::Register(obj, events), obj not null, for the object's
\* unique id: "assert" (assert(id >= 0) fails), or whether it returns true.
ReactorRegisterResult(l, id, ev) ==
  IF ev = {} THEN "true"
  ELSE IF id < 0 THEN "assert"
  ELSE IF id \in DOMAIN robjects[l] THEN "false"
  ELSE "true"
ReactorRegisterTable(l, o, id, ev) ==
  IF ev # {} /\ id >= 0 /\ id \notin DOMAIN robjects[l]
  THEN Put(robjects[l], id, Watches(o, ev))
  ELSE robjects[l]

\* LibeventReactor::Unregister(obj): drops the record of the object's id, if any.
ReactorUnregisterTable(l, id) ==
  IF id \in DOMAIN robjects[l] THEN Drop(robjects[l], id) ELSE robjects[l]

\* LibeventReactor::Modify(obj, events) on an existing record.
ReactorModifyRecord(r, ev) ==
  [r EXCEPT !.read = kEventRead \in ev, !.write = kEventWrite \in ev]

\* ------------------------------------------------------ EventLoop::Register
\* do { id = obj_id_generator_.fetch_add(1) + 1; ... } while (id < 0 || objects_.count(id) != 0)
IdNeverInUse(l, id) == FALSE
IdInUse(l, id) == id \in DOMAIN objects[l]

\* assert(obj->GetUniqueId() == -1)
RegisterAsserts(o) == uid[o] = -1

\* Register(obj, events) is entered by thread t. The asserts and the reactor_
\* check are made here; the id loop and the rest follow in RegisterStep.
\* cont names the caller's code that runs when Register returns.
RegisterEnter(t, l, o, ev, cont) ==
  IF ~ndebug /\ (~InThisLoop(l, t) \/ ~RegisterAsserts(o))
  THEN /\ aborted' = TRUE
       /\ UNCHANGED regVars
  ELSE /\ reg' = [reg EXCEPT ![l] =
                    [st |-> IF reactor[l] THEN "fetch" ELSE "fail",
                     obj |-> o, ev |-> ev, cont |-> cont]]
       /\ UNCHANGED <<aborted, reactor, objects, robjects, uid, obj_id_generator>>

\* The rest of Register once the id is chosen: SetUniqueId, the reactor's
\* Register and, when that succeeds, the insert into objects_.
RegisterFinish(l, id) ==
  LET o == reg[l].obj
      ev == reg[l].ev
      res == ReactorRegisterResult(l, id, ev) IN
  /\ uid' = [uid EXCEPT ![o] = id]
  /\ IF res = "assert"
     THEN /\ aborted' = TRUE
          /\ UNCHANGED <<objects, robjects>>
     ELSE /\ UNCHANGED aborted
          /\ robjects' = [robjects EXCEPT ![l] = ReactorRegisterTable(l, o, id, ev)]
          /\ objects' = [objects EXCEPT ![l] =
                           IF res = "true" THEN Insert(@, id, o) ELSE @]
  /\ reg' = [reg EXCEPT ![l] = NoReg]
  /\ UNCHANGED reactor

\* Whether the Register call that RegisterFinish(l, id) ends returns true.
RegisterOk(l, id) == ReactorRegisterResult(l, id, reg[l].ev) = "true"

\* ---------------------------------------------------- EventLoop::Unregister
\* Unregister(obj) by thread t, obj not null: "assert" when one of its three
\* asserts fails, "return" when reactor_ is null, else "done".
UnregisterResult(t, l, o) ==
  IF ~ndebug /\ (~InThisLoop(l, t) \/ uid[o] < 0 \/ uid[o] \notin DOMAIN objects[l])
  THEN "assert"
  ELSE IF ~reactor[l] THEN "return" ELSE "done"

\* The registry and the reactor's table after Unregister(obj): both erase
\* by id, and erasing an id that is not there changes nothing.
UnregisterTables(t, l, o) ==
  /\ IF UnregisterResult(t, l, o) = "done"
     THEN /\ robjects' = [robjects EXCEPT ![l] = ReactorUnregisterTable(l, uid[o])]
          /\ objects' = [objects EXCEPT ![l] =
                           IF uid[o] \in DOMAIN @ THEN Drop(@, uid[o]) ELSE @]
     ELSE UNCHANGED <<objects, robjects>>
  /\ UNCHANGED <<reactor, uid, obj_id_generator, reg>>

UnregisterEffect(t, l, o) ==
  /\ aborted' = (UnregisterResult(t, l, o) = "assert")
  /\ UnregisterTables(t, l, o)

\* ------------------------------------------------------- EventLoop::Modify
\* Modify(obj, events) by thread t: "assert" when an assert of EventLoop::Modify
\* or the reactor's assert(obj->ev_obj == evobj) fails, "return" when
\* reactor_ is null, else "done".
ModifyResult(t, l, o) ==
  IF ~ndebug /\ (~InThisLoop(l, t) \/ uid[o] < 0 \/ uid[o] \notin DOMAIN objects[l])
  THEN "assert"
  ELSE IF ~reactor[l] THEN "return"
  ELSE IF ~ndebug /\ uid[o] \in DOMAIN robjects[l] /\ robjects[l][uid[o]].ev_obj # o
  THEN "assert"
  ELSE "done"

\* What Modify(obj, events) returns: the reactor's Modify, which is false when
\* it holds no record for the object's id; false without a reactor.
ModifyReturns(t, l, o) ==
  ModifyResult(t, l, o) = "done" /\ uid[o] \in DOMAIN robjects[l]
NoModify == [obj |-> "none", ev |-> {}, ret |-> FALSE]

ModifyEffect(t, l, o, ev) ==
  LET res == ModifyResult(t, l, o) IN
  /\ aborted' = (res = "assert")
  /\ IF res = "done" /\ uid[o] \in DOMAIN robjects[l]
     THEN robjects' = [robjects EXCEPT ![l][uid[o]] = ReactorModifyRecord(@, ev)]
     ELSE UNCHANGED robjects
  /\ UNCHANGED <<reactor, objects, uid, obj_id_generator, reg>>

\* -------------------------------------------------------------------- timers
\* LibeventReactor::Schedule: timers_[id] = std::move(timer). n is the
\* ScheduleLater / ScheduleRepeatedly call whose callback the record holds;
\* due says that the timer's delay has elapsed and Poll will dispatch it.
TimerRecord(n, repeat, ms) == [n |-> n, repeat |-> repeat, ms |-> ms, due |-> FALSE]
Schedule(tbl, id, rec) == Put(tbl, id, rec)

\* LibeventReactor::Cancel(id)
CancelFoundAlways(tbl, id) == TRUE
CancelFound(tbl, id) == id \in DOMAIN tbl
CancelTableKeeps(tbl, id) == tbl
CancelTable(tbl, id) == IF id \in DOMAIN tbl THEN Drop(tbl, id) ELSE tbl

\* The record of the timer armed by schedule call n is in its loop's table.
TimerLive(n) ==
  /\ sched[n].id \in DOMAIN timers[sched[n].loop]
  /\ timers[sched[n].loop][sched[n].id].n = n

InSeq(c, q) == \E i \in 1..Len(q) : q[i] = c
\* The closure posted by schedule call n to arm its timer has not run yet.
ArmPending(n) ==
  InSeq(ArmTask(n), tasks[sched[n].loop]) \/ InSeq(ArmTask(n), funcs[sched[n].loop])

\* The delay of the timer of schedule call n has not elapsed: it is yet to be
\* armed, or it is armed, not due, and has not fired.
NotElapsed(n) ==
  \/ ArmPending(n)
  \/ TimerLive(n) /\ ~timers[sched[n].loop][sched[n].id].due /\ fired[n] = 0

\* f of schedule call n is armed and has not run.
ArmedUnfired(n) == TimerLive(n) /\ fired[n] = 0

\* A Cancel call: the schedule call n whose id it passes, the caller, what held
\* when the call was made (window, early) and what held when the reactor's
\* Cancel was run on the loop's thread (live), and the value of its future.
CancelRecord(t, n, res, live) ==
  [n |-> n, id |-> sched[n].id, by |-> t, loop |-> sched[n].loop, res |-> res,
   window |-> ArmPending(n), early |-> NotElapsed(n), live |-> live]

\* reactor_ ? reactor_->Cancel(id) : false, for the id of Cancel call record r
CancelOutcome(l, id) ==
  IF reactor[l] /\ CancelFound(timers[l], id) THEN "true" ELSE "false"
\* Cancel call record r once its cancel has been run on the loop's thread
Cancelled(r) ==
  [r EXCEPT !.res = CancelOutcome(r.loop, r.id), !.live = ArmedUnfired(r.n)]

\* --------------------------------------------------------------- connections
\* TcpObject::State, and "unborn" for a connection object not yet constructed
kNone == "None"
kConnecting == "Connecting"
kConnected == "Connected"
kDisconnected == "Disconnected"
kFailed == "Failed"
Unborn == "unborn"

\* The fields of a connection that its operations write.
ConnFields(c) ==
  <<cstate[c], idle_timer[c], idle_timeout_ms[c], last_active[c], outbuf[c]>>

\* x.fetch_add(1) + 1 for an atomic int holding old: fetch_add wraps, and the
\* int addition overflows (undefined) when old is the largest int. There the
\* result is the wrapped sum, or the addition traps.
FetchAddPlusOne(old, max) ==
  IF old = max
  THEN {[trap |-> TRUE, id |-> 0], [trap |-> FALSE, id |-> -(max + 1)]}
  ELSE {[trap |-> FALSE, id |-> old + 1]}

\* ------------------------------------------------- TcpObject state changes
\* One user callback invoked on connection c. what is the callback; len and
\* ret are the bytes offered to on_message and its result, 0 for the others.
Called(what, c, len, ret) == [cb |-> what, conn |-> c, len |-> len, ret |-> ret]
on_new_conn(c) == Called("on_new_conn", c, 0, 0)
on_disconnect(c) == Called("on_disconnect", c, 0, 0)
on_fail(c) == Called("on_fail", c, 0, 0)
on_message(c, len, ret) == Called("on_message", c, len, ret)

\* The log with that of connection c replaced by s.
Logged(c, s) == [trace EXCEPT ![c] = s]

\* The on_new_conn callback installed on connection c calls ActiveClose() on
\* it; the callback of the other connections returns at once.
ClosesInNewConn(c) == c = "c2"

\* The two asserts at the head of HandleDisconnect hold for thread t.
DisconnectAsserts(t, c) == InThisLoop(cloop[c], t) /\ cstate[c] = kConnected

\* HandleDisconnect on thread t, in a handler that has logged tr so far: its
\* asserts, state_, on_disconnect_, then Unregister(this).
HandleDisconnectAfter(t, c, tr) ==
  IF ~ndebug /\ ~DisconnectAsserts(t, c)
  THEN /\ aborted' = TRUE
       /\ trace' = Logged(c, tr)
       /\ UNCHANGED <<regVars, cstate>>
  ELSE /\ cstate' = [cstate EXCEPT ![c] = kDisconnected]
       /\ trace' = Logged(c, Append(tr, on_disconnect(c)))
       /\ UnregisterEffect(t, cloop[c], c)

HandleDisconnect(t, c) == HandleDisconnectAfter(t, c, trace[c])

\* The test of the destroy closure of ActiveClose: conn->state_ == kConnected.
DestroyAppliesAlways(c) == TRUE
DestroyApplies(c) == cstate[c] = kConnected

\* The destroy closure of ActiveClose, run on the loop's thread t.
Destroy(t, c) ==
  IF DestroyApplies(c)
  THEN HandleDisconnect(t, c)
  ELSE UNCHANGED <<aborted, regVars, cstate, trace>>

\* create_conn of TcpListenerObj::OnNewConnection on the thread t of loop l:
\* the connection is constructed, OnAccept runs HandleConnect and with it
\* on_new_conn, and then the connection is registered with an empty mask. An
\* on_new_conn that calls ActiveClose runs HandleDisconnect before that
\* Register: its Unregister finds the id still -1.
CreateConn(t, l, c) ==
  /\ cloop' = [cloop EXCEPT ![c] = l]
  /\ last_active' = [last_active EXCEPT ![c] = now]
  /\ IF ClosesInNewConn(c)
     THEN /\ cstate' = [cstate EXCEPT ![c] = kDisconnected]
          /\ trace' = Logged(c, trace[c] \o <<on_new_conn(c), on_disconnect(c)>>)
          /\ IF ndebug
             THEN RegisterEnter(t, l, c, {}, "accept")
             ELSE aborted' = TRUE /\ UNCHANGED regVars
     ELSE /\ cstate' = [cstate EXCEPT ![c] = kConnected]
          /\ trace' = Logged(c, Append(trace[c], on_new_conn(c)))
          /\ RegisterEnter(t, l, c, {}, "accept")
  /\ UNCHANGED <<idle_timer, idle_timeout_ms, outbuf, now, inbuf, sendret>>

\* ------------------------------------------------------ posting a closure
\* std::unique_lock guard(task_mutex_); tasks_.emplace_back(...)
PostLock(t) ==
  /\ ~aborted /\ tpc[t] = "run" /\ script[t] # <<>> /\ Head(script[t]).op = "post"
  /\ LET l == Head(script[t]).loop IN
     /\ task_mutex[l] = Free
     /\ task_mutex' = [task_mutex EXCEPT ![l] = t]
     /\ tasks' = [tasks EXCEPT ![l] = EmplaceBack(@, Head(script[t]).c)]
  /\ tpc' = [tpc EXCEPT ![t] = "notify"]
  /\ actor' = t
  /\ UNCHANGED <<thrVars, aborted, loopVars, funcs, pipe, script, posted,
                 logVars, regVars, timerVars, connVars>>

\* notifier_->Notify() under the lock
PostNotify(t) ==
  /\ ~aborted /\ tpc[t] = "notify"
  /\ pipe' = [pipe EXCEPT ![Head(script[t]).loop] = Notify(@)]
  /\ tpc' = [tpc EXCEPT ![t] = "unlock"]
  /\ actor' = t
  /\ UNCHANGED <<thrVars, aborted, loopVars, task_mutex, tasks, funcs, script,
                 posted, logVars, regVars, timerVars, connVars>>

\* The unique_lock goes out of scope and Execute returns its future. When the
\* closure arms a timer, ScheduleLater / ScheduleRepeatedly returns the id.
PostUnlock(t) ==
  /\ ~aborted /\ tpc[t] = "unlock"
  /\ LET c == Head(script[t]).c IN
     /\ task_mutex' = [task_mutex EXCEPT ![Head(script[t]).loop] = Free]
     /\ sched' = IF c.kind = "arm"
                 THEN [sched EXCEPT ![c.n].st = "returned"]
                 ELSE sched
  /\ script' = [script EXCEPT ![t] = Tail(@)]
  /\ tpc' = [tpc EXCEPT ![t] = IF Len(script[t]) = 1 THEN "idle" ELSE "run"]
  /\ actor' = t
  /\ UNCHANGED <<thrVars, aborted, loopVars, tasks, funcs, pipe, posted,
                 logVars, regVars, timerid_generator, timers, cancels, fired,
                 connVars>>

\* The future of closure c is ready: its packaged task has run.
FutureReadyAlways(c) == TRUE
FutureReady(c) == c \in fut

\* fut.get() of ActiveClose(sync = true): returns once the closure has run
WaitFuture(t) ==
  /\ ~aborted /\ tpc[t] = "run" /\ script[t] # <<>> /\ Head(script[t]).op = "wait"
  /\ FutureReady(Head(script[t]).c)
  /\ script' = [script EXCEPT ![t] = Tail(@)]
  /\ tpc' = [tpc EXCEPT ![t] = IF Len(script[t]) = 1 THEN "idle" ELSE "run"]
  /\ actor' = t
  /\ UNCHANGED <<thrVars, aborted, loopVars, inboxVars, posted, logVars,
                 regVars, timerVars, connVars>>

\* -------------------------------------------------------------------- Execute
\* The packaged task of a user closure runs: its effect and its future.
RunPlain(t, c) ==
  /\ ran' = Append(ran, [task |-> c, on |-> t])
  /\ fut' = fut \cup {c}

\* Execute(f) by thread t on loop l. On the loop's thread the task runs at
\* once; on another thread the caller goes on to take the mutex and append.
Execute(t, l) ==
  /\ ~aborted /\ ctor[l] # NoThread
  /\ AtUserCode(t)
  /\ posted[t] < MaxPost
  /\ LET c == PlainTask(t, posted[t] + 1) IN
     IF InThisLoop(l, t)
     THEN /\ RunPlain(t, c)
          /\ UNCHANGED <<tpc, script>>
     ELSE /\ script' = [script EXCEPT ![t] = <<PostOp(l, c)>>]
          /\ tpc' = [tpc EXCEPT ![t] = "run"]
          /\ UNCHANGED logVars
  /\ posted' = [posted EXCEPT ![t] = @ + 1]
  /\ actor' = t
  /\ UNCHANGED <<thrVars, aborted, loopVars, inboxVars, regVars, timerVars,
                 connVars>>

\* ------------------------------------------------------------ EventLoop ctor
\* assert(!g_this_loop && "There must be only one EventLoop per thread")
CtorAssertsNothing(t) == TRUE
CtorAsserts(t) == g_this_loop[t] = NoLoop

\* EventLoop::EventLoop() for loop object l, run by thread t. Without asserts
\* the constructor goes on and overwrites the thread's slot.
Construct(t, l) ==
  /\ ~aborted /\ ctor[l] = NoThread
  /\ AtUserCode(t)
  /\ IF ndebug \/ CtorAsserts(t)
     THEN /\ g_this_loop' = [g_this_loop EXCEPT ![t] = l]
          /\ ctor' = [ctor EXCEPT ![l] = t]
          /\ reactor' = [reactor EXCEPT ![l] = TRUE]
          /\ UNCHANGED <<aborted, ndebug, modret, delivered>>
     ELSE /\ aborted' = TRUE
          /\ UNCHANGED <<thrVars, reactor>>
  /\ actor' = t
  /\ UNCHANGED <<loopVars, inboxVars, cliVars, logVars, objects, robjects, uid,
                 obj_id_generator, reg, timerVars, connVars>>

\* ----------------------------------------------------------------------- Run
\* Run() up to the while: Register(notifier_, kEventRead).
RunStart(l) ==
  /\ ~aborted /\ LoopFree(l) /\ pc[l] = "init"
  /\ RegisterEnter(ctor[l], l, Notifier(l), {kEventRead}, "run")
  /\ pc' = [pc EXCEPT ![l] = "registering"]
  /\ actor' = ctor[l]
  /\ UNCHANGED <<thrVars, running, inboxVars, cliVars, logVars, timerVars,
                 connVars>>

\* while (running_) { if (task_mutex_.try_lock()) { funcs.swap(tasks_); unlock } ...
RunTryLock(l) ==
  /\ ~aborted /\ LoopFree(l) /\ pc[l] = "top" /\ running[l]
  /\ IF task_mutex[l] = Free
     THEN /\ funcs' = [funcs EXCEPT ![l] = tasks[l]]
          /\ tasks' = [tasks EXCEPT ![l] = <<>>]
          /\ pc' = [pc EXCEPT ![l] = IF tasks[l] = <<>> THEN "poll" ELSE "drain"]
     ELSE /\ pc' = [pc EXCEPT ![l] = "poll"]
          /\ UNCHANGED <<funcs, tasks>>
  /\ actor' = ctor[l]
  /\ UNCHANGED <<thrVars, aborted, running, task_mutex, pipe, cliVars, logVars,
                 regVars, timerVars, connVars>>

\* for (const auto& f : funcs) f();  One closure of the batch runs.
RunTask(l) ==
  /\ ~aborted /\ LoopFree(l) /\ pc[l] = "drain" /\ funcs[l] # <<>>
  /\ LET c == Head(funcs[l])
         t == ctor[l] IN
     \/ /\ c.kind = "plain"
        /\ RunPlain(t, c)
        /\ UNCHANGED <<aborted, regVars, timerVars, connVars>>
     \/ /\ c.kind = "arm"
        /\ timers' = [timers EXCEPT ![l] =
                        Schedule(@, sched[c.n].id,
                                 TimerRecord(c.n, sched[c.n].repeat, sched[c.n].ms))]
        /\ UNCHANGED <<aborted, logVars, regVars, timerid_generator, sched,
                       cancels, fired, connVars>>
     \/ /\ c.kind = "cancel"
        /\ cancels' = [cancels EXCEPT ![c.k] = Cancelled(@)]
        /\ timers' = [timers EXCEPT ![l] = CancelTable(@, cancels[c.k].id)]
        /\ UNCHANGED <<aborted, logVars, regVars, timerid_generator, sched,
                       fired, connVars>>
     \/ /\ c.kind = "destroy"
        /\ Destroy(t, c.conn)
        /\ fut' = fut \cup {c}
        /\ UNCHANGED <<ran, timerVars, connRest>>
     \/ /\ c.kind = "create"
        /\ CreateConn(t, l, c.conn)
        /\ UNCHANGED <<logVars, timerVars>>
  /\ funcs' = [funcs EXCEPT ![l] = Tail(@)]
  /\ pc' = [pc EXCEPT ![l] = IF Len(funcs[l]) = 1 THEN "poll" ELSE "drain"]
  /\ actor' = ctor[l]
  /\ UNCHANGED <<thrVars, running, task_mutex, tasks, pipe, cliVars>>

\* ---------------------------------------------------------------------- Poll
\* LibeventReactor's constructor arms a persistent no-op event every 10 ms,
\* so event_base_loop(EVLOOP_ONCE) always has an event to return on.
WakeupEventMissing == FALSE
WakeupEventArmed == TRUE

\* The read end of a pipe holding n bytes is readable: the notifier's watch is
\* EV_READ | EV_PERSIST, which libevent reports while there is a byte to read.
ReadableAlways(n) == TRUE
Readable(n) == n > 0
\* PipeObject::HandleReadEvent on a pipe holding n bytes: a read of one byte,
\* which takes a byte when there is one, and `return n == 1`.
ReadLeaves(n) == IF n > 0 THEN n - 1 ELSE n
HandleReadEvent(n) == n > 0

\* Poll dispatches the notifier's read event: OnReadable calls
\* HandleReadEvent, and HandleErrorEvent (assert(false)) when that is false.
PollNotifier(l) ==
  /\ ~aborted /\ LoopFree(l) /\ pc[l] \in {"poll", "polled"} /\ Readable(pipe[l])
  /\ uid[Notifier(l)] \in DOMAIN robjects[l]
  /\ robjects[l][uid[Notifier(l)]].read
  /\ pipe' = [pipe EXCEPT ![l] = ReadLeaves(@)]
  /\ aborted' = (~ndebug /\ ~HandleReadEvent(pipe[l]))
  /\ pc' = [pc EXCEPT ![l] = "polled"]
  /\ actor' = ctor[l]
  /\ UNCHANGED <<thrVars, running, task_mutex, tasks, funcs, cliVars,
                 logVars, regVars, timerVars, connVars>>

\* Poll returns: after it dispatched at least one event, or on the wake-up event.
PollReturn(l) ==
  /\ ~aborted /\ LoopFree(l)
  /\ \/ pc[l] = "polled"
     \/ pc[l] = "poll" /\ WakeupEventArmed
  /\ pc' = [pc EXCEPT ![l] = "top"]
  /\ actor' = ctor[l]
  /\ UNCHANGED <<thrVars, aborted, running, inboxVars, cliVars, logVars,
                 regVars, timerVars, connVars>>

\* ---------------------------------------------------------------------- Stop
\* running_ = false; notifier_->Notify();
Stop(t, l) ==
  /\ ~aborted /\ ctor[l] # NoThread /\ running[l]
  /\ tpc[t] = "idle"
  /\ running' = [running EXCEPT ![l] = FALSE]
  /\ pipe' = [pipe EXCEPT ![l] = Notify(@)]
  /\ actor' = t
  /\ UNCHANGED <<thrVars, aborted, pc, task_mutex, tasks, funcs, cliVars,
                 logVars, regVars, timerVars, connVars>>

\* Run leaves the while and returns at once, without the loop over objects_,
\* the clear() and the reset() of the reactor.
RunExitLeavesAll(l) ==
  /\ ~aborted /\ LoopFree(l) /\ pc[l] = "top" /\ ~running[l]
  /\ pc' = [pc EXCEPT ![l] = "exited"]
  /\ actor' = ctor[l]
  /\ UNCHANGED <<thrVars, aborted, running, inboxVars, cliVars, logVars,
                 regVars, timerVars, connVars>>

\* Run leaves the while: every object is unregistered from the reactor, the
\* registry is cleared and the reactor is torn down. What is left in the
\* inbox is never run.
RunExit(l) ==
  /\ ~aborted /\ LoopFree(l) /\ pc[l] = "top" /\ ~running[l]
  /\ pc' = [pc EXCEPT ![l] = "exited"]
  /\ robjects' = [robjects EXCEPT ![l] = Empty]
  /\ objects' = [objects EXCEPT ![l] = Empty]
  /\ timers' = [timers EXCEPT ![l] = Empty]
  /\ reactor' = [reactor EXCEPT ![l] = FALSE]
  /\ actor' = ctor[l]
  /\ UNCHANGED <<thrVars, aborted, running, inboxVars, cliVars, logVars, uid,
                 obj_id_generator, reg, timerid_generator, sched, cancels,
                 fired, connVars>>

\* ------------------------------------------------ EventLoop::Register, cont.
\* What the caller of Register does when it returns ok (cont names the caller).
\* Run ignores the result and enters its while; TcpObject::Connect updates
\* state_ when Register succeeded; the other callers only log.
Continue(l, cont, o, ok) ==
  /\ pc' = IF cont = "run" THEN [pc EXCEPT ![l] = "top"] ELSE pc
  /\ cstate' = IF cont = "connect" /\ ok
               THEN [cstate EXCEPT ![o] = kConnecting]
               ELSE cstate
  /\ UNCHANGED trace

\* One step of the Register call loop l's thread is inside: a turn of the id
\* loop up to its fetch_add, the store(0) of a negative turn, or the return.
\* When fetch_add returns the largest int, the addition overflows: it traps,
\* or the id is the wrapped sum, which the id < 0 tests see as negative or,
\* compiled on the assumption that the sum cannot overflow, do not.
RegisterStep(l) ==
  /\ ~aborted /\ reg[l] # NoReg
  /\ LET r == reg[l] IN
     \/ /\ r.st = "fetch"
        /\ obj_id_generator' = Wrap(obj_id_generator + 1, ObjIdMax)
        /\ \E a \in FetchAddPlusOne(obj_id_generator, ObjIdMax) :
             \/ /\ a.trap
                /\ aborted' = TRUE
                /\ UNCHANGED <<reactor, objects, robjects, uid, reg, pc, cstate, trace>>
             \/ /\ ~a.trap /\ a.id < 0
                /\ reg' = [reg EXCEPT ![l].st = "store"]
                /\ UNCHANGED <<aborted, reactor, objects, robjects, uid, pc, cstate, trace>>
             \/ /\ ~a.trap /\ a.id >= 0 /\ IdInUse(l, a.id)
                /\ UNCHANGED <<aborted, reactor, objects, robjects, uid, reg, pc, cstate, trace>>
             \/ /\ ~a.trap
                /\ \/ a.id >= 0
                   \/ obj_id_generator = ObjIdMax
                /\ ~IdInUse(l, a.id)
                /\ RegisterFinish(l, a.id)
                /\ Continue(l, r.cont, r.obj, RegisterOk(l, a.id))
     \/ /\ r.st = "store"
        /\ obj_id_generator' = 0
        /\ reg' = [reg EXCEPT ![l].st = "fetch"]
        /\ UNCHANGED <<aborted, reactor, objects, robjects, uid, pc, cstate, trace>>
     \/ /\ r.st = "fail"
        /\ reg' = [reg EXCEPT ![l] = NoReg]
        /\ Continue(l, r.cont, r.obj, FALSE)
        /\ UNCHANGED <<aborted, reactor, objects, robjects, uid, obj_id_generator>>
  /\ actor' = ctor[l]
  /\ UNCHANGED <<thrVars, running, inboxVars, cliVars, logVars, timerVars,
                 cloop, idle_timer, idle_timeout_ms, last_active, outbuf, now, inbuf, sendret>>

\* ------------------------------------------------ registry calls of user code
\* loop->Register(obj, events) called by thread t. An event object is handed
\* to Register by one thread at a time: the callers in the code register an
\* object they have just made.
UserRegister(t, l, o, ev) ==
  /\ ~aborted /\ ctor[l] # NoThread /\ AtUserCode(t)
  /\ \A l2 \in Loops : reg[l2] # NoReg => reg[l2].obj # o
  /\ RegisterEnter(t, l, o, ev, "user")
  /\ actor' = t
  /\ UNCHANGED <<thrVars, loopVars, inboxVars, cliVars, logVars, timerVars,
                 connVars>>

\* loop->Unregister(obj) called by thread t
UserUnregister(t, l, o) ==
  /\ ~aborted /\ ctor[l] # NoThread /\ AtUserCode(t)
  /\ UnregisterEffect(t, l, o)
  /\ actor' = t
  /\ UNCHANGED <<thrVars, loopVars, inboxVars, cliVars, logVars, timerVars,
                 connVars>>

\* loop->Modify(obj, events) called by thread t
UserModify(t, l, o, ev) ==
  /\ ~aborted /\ ctor[l] # NoThread /\ AtUserCode(t)
  /\ ModifyEffect(t, l, o, ev)
  /\ modret' = [obj |-> o, ev |-> ev, ret |-> ModifyReturns(t, l, o)]
  /\ actor' = t
  /\ UNCHANGED <<g_this_loop, ctor, ndebug, delivered, loopVars, inboxVars, cliVars, logVars, timerVars,
                 connVars>>

\* ---------------------------------------------------------------- timer calls
\* delays passed to ScheduleLater / ScheduleRepeatedly, in ms
Delays == {100}

\* A ScheduleLater / ScheduleRepeatedly call: its loop, caller and id, the
\* connection whose idle timer it arms ("none" for a timer of user code), and
\* whether the call has returned its id.
SchedRecord(t, l, id, repeat, ms, c, st) ==
  [loop |-> l, by |-> t, id |-> id, repeat |-> repeat, ms |-> ms, conn |-> c,
   st |-> st]

\* ScheduleLater(ms, f) (repeat = FALSE) or ScheduleRepeatedly(ms, f) by thread
\* t on loop l, for connection c's idle timer or for user code: the id is
\* drawn, then the timer is armed at once on the loop's thread, or the arming
\* closure is what the caller posts next.
ScheduleBody(t, l, repeat, ms, c, a, rest) ==
  LET n == Len(sched) + 1 IN
  /\ timerid_generator' = Wrap(timerid_generator + 1, TimerIdMax)
  /\ IF a.trap
     THEN /\ aborted' = TRUE
          /\ UNCHANGED <<timers, sched, fired, tpc, script>>
     ELSE /\ UNCHANGED aborted
          /\ fired' = Append(fired, 0)
          /\ IF InThisLoop(l, t)
             THEN /\ sched' = Append(sched, SchedRecord(t, l, a.id, repeat, ms, c, "returned"))
                  /\ timers' = [timers EXCEPT ![l] =
                                  Schedule(@, a.id, TimerRecord(n, repeat, ms))]
                  /\ UNCHANGED <<tpc, script>>
             ELSE /\ sched' = Append(sched, SchedRecord(t, l, a.id, repeat, ms, c, "posting"))
                  /\ script' = [script EXCEPT ![t] = <<PostOp(l, ArmTask(n))>> \o rest]
                  /\ tpc' = [tpc EXCEPT ![t] = "run"]
                  /\ UNCHANGED timers

ScheduleCall(t, l, repeat, ms) ==
  /\ ~aborted /\ ctor[l] # NoThread /\ AtUserCode(t)
  /\ Len(sched) < MaxSched
  /\ \E a \in FetchAddPlusOne(timerid_generator, TimerIdMax) :
       ScheduleBody(t, l, repeat, ms, "none", a, <<>>)
  /\ actor' = t
  /\ UNCHANGED <<thrVars, loopVars, inboxVars, posted, logVars, regVars,
                 cancels, connVars>>

\* Cancel(id) by thread t with the id schedule call n returned: on the loop's
\* thread the reactor's Cancel at once, on another thread a posted closure.
CancelBody(t, n, rest) ==
  LET l == sched[n].loop
      k == Len(cancels) + 1 IN
  IF InThisLoop(l, t)
  THEN /\ cancels' = Append(cancels, Cancelled(CancelRecord(t, n, "pending", FALSE)))
       /\ timers' = [timers EXCEPT ![l] =
                       IF reactor[l] THEN CancelTable(@, sched[n].id) ELSE @]
       /\ UNCHANGED <<tpc, script>>
  ELSE /\ cancels' = Append(cancels, CancelRecord(t, n, "pending", FALSE))
       /\ script' = [script EXCEPT ![t] = <<PostOp(l, CancelTask(k))>> \o rest]
       /\ tpc' = [tpc EXCEPT ![t] = "run"]
       /\ UNCHANGED timers

CancelCall(t, n) ==
  /\ ~aborted /\ AtUserCode(t)
  /\ n \in 1..Len(sched) /\ sched[n].st = "returned" /\ sched[n].conn = "none"
  /\ Len(cancels) < MaxCancel
  /\ CancelBody(t, n, <<>>)
  /\ actor' = t
  /\ UNCHANGED <<thrVars, aborted, loopVars, inboxVars, posted, logVars,
                 regVars, timerid_generator, sched, fired, connVars>>

\* The delay of the timer with id `id` of loop l elapses.
Elapse(l, id) ==
  /\ ~aborted /\ ctor[l] # NoThread
  /\ id \in DOMAIN timers[l] /\ ~timers[l][id].due
  /\ timers' = [timers EXCEPT ![l][id].due = TRUE]
  /\ UNCHANGED <<thrVars, aborted, actor, loopVars, inboxVars, cliVars,
                 logVars, regVars, timerid_generator, sched, cancels, fired,
                 connVars>>

\* callbacks of one schedule call counted in a run of the model
MaxFire == 1

\* TcpObject::CheckIdleTimeout, times in ms
CheckIdleTimeout(c) == 100 * (now - last_active[c]) > idle_timeout_ms[c]

\* LibeventReactor::TimerCallback for a due timer, dispatched by Poll: the
\* callback, then Cancel(id) for a one-shot timer. The callback of an idle
\* timer closes the connection when CheckIdleTimeout says so.
PollTimer(l, id) ==
  /\ ~aborted /\ LoopFree(l) /\ pc[l] \in {"poll", "polled"}
  /\ id \in DOMAIN timers[l] /\ timers[l][id].due
  /\ LET r == timers[l][id]
         c == sched[r.n].conn IN
     /\ fired[r.n] < MaxFire
     /\ fired' = [fired EXCEPT ![r.n] = @ + 1]
     /\ timers' = [timers EXCEPT ![l] =
                     IF r.repeat THEN [@ EXCEPT ![id].due = FALSE] ELSE Drop(@, id)]
     /\ IF c # "none" /\ CheckIdleTimeout(c)
        THEN Destroy(ctor[l], c)
        ELSE UNCHANGED <<aborted, regVars, cstate, trace>>
  /\ pc' = [pc EXCEPT ![l] = "polled"]
  /\ actor' = ctor[l]
  /\ UNCHANGED <<thrVars, running, inboxVars, cliVars, logVars,
                 timerid_generator, sched, cancels, connRest>>

\* -------------------------------------------------------- connection calls
\* A closure in some inbox, batch or poster's hands creates connection c.
InFlight(c) ==
  \/ \E l \in Loops : InSeq(CreateTask(c), tasks[l]) \/ InSeq(CreateTask(c), funcs[l])
  \/ \E t \in Threads : script[t] # <<>> /\ Head(script[t]).op = "post"
                        /\ Head(script[t]).c = CreateTask(c)

\* Connection c is constructed and the call that made it has returned: other
\* code can hold it.
Published(c) ==
  /\ cstate[c] # Unborn
  /\ \A l \in Loops : reg[l] # NoReg => reg[l].obj # c

\* EventLoop::Connect by thread t on loop l: a TcpObject is constructed and
\* TcpObject::Connect asserts the thread, connects, and registers the object
\* with an empty mask; state_ follows when Register returns.
Connect(t, l, c) ==
  /\ ~aborted /\ ctor[l] # NoThread /\ AtUserCode(t)
  /\ cstate[c] = Unborn /\ ~InFlight(c)
  /\ cloop' = [cloop EXCEPT ![c] = l]
  /\ last_active' = [last_active EXCEPT ![c] = now]
  /\ cstate' = [cstate EXCEPT ![c] = kNone]
  /\ UNCHANGED trace
  /\ IF InThisLoop(l, t)
     THEN RegisterEnter(t, l, c, {}, "connect")
     ELSE aborted' = TRUE /\ UNCHANGED regVars
  /\ actor' = t
  /\ UNCHANGED <<thrVars, loopVars, inboxVars, cliVars, logVars, timerVars,
                 idle_timer, idle_timeout_ms, outbuf, now, inbuf, sendret>>

\* A TcpObject for loop l is constructed and OnAccept is called on it by
\* thread t: assert(loop_->InThisLoop()), then HandleConnect and with it
\* on_new_conn. An on_new_conn that calls ActiveClose runs HandleDisconnect,
\* whose Unregister finds the id still -1. (A callback that closes is taken
\* on the loop's thread only.)
OnAccept(t, l, c) ==
  /\ ~aborted /\ ctor[l] # NoThread /\ AtUserCode(t)
  /\ cstate[c] = Unborn /\ ~InFlight(c)
  /\ ClosesInNewConn(c) /\ ndebug => InThisLoop(l, t)
  /\ cloop' = [cloop EXCEPT ![c] = l]
  /\ last_active' = [last_active EXCEPT ![c] = now]
  /\ IF ~ndebug /\ ~InThisLoop(l, t)
     THEN /\ cstate' = [cstate EXCEPT ![c] = kNone]
          /\ aborted' = TRUE
          /\ UNCHANGED trace
     ELSE IF ClosesInNewConn(c)
     THEN /\ cstate' = [cstate EXCEPT ![c] = kDisconnected]
          /\ trace' = Logged(c, trace[c] \o <<on_new_conn(c), on_disconnect(c)>>)
          /\ aborted' = ~ndebug
     ELSE /\ cstate' = [cstate EXCEPT ![c] = kConnected]
          /\ trace' = Logged(c, Append(trace[c], on_new_conn(c)))
          /\ UNCHANGED aborted
  /\ actor' = t
  /\ UNCHANGED <<thrVars, loopVars, inboxVars, cliVars, logVars, regVars,
                 timerVars, idle_timer, idle_timeout_ms, outbuf, now, inbuf, sendret>>

\* bytes counted in an output buffer in a run of the model
MaxOut == 2

\* What a SendPacket call returned.
ReturnedTrue(c, size, ret) == [conn |-> c, size |-> size, ret |-> TRUE]
Returned(c, size, ret) == [conn |-> c, size |-> size, ret |-> ret]
NoReturn == [conn |-> "none", size |-> 0, ret |-> FALSE]

\* SendPacket(data, size) and SendPacket(iovecs, nvecs) of size bytes in all
\* by thread t: false in a state other than Connected, true for no data,
\* else the thread is asserted and the data is appended.
SendPacket(t, c, size) ==
  /\ ~aborted /\ AtUserCode(t) /\ Published(c)
  /\ IF cstate[c] # kConnected
     THEN /\ sendret' = Returned(c, size, FALSE)
          /\ UNCHANGED <<aborted, outbuf>>
     ELSE IF size = 0
     THEN /\ sendret' = Returned(c, size, TRUE)
          /\ UNCHANGED <<aborted, outbuf>>
     ELSE IF ndebug \/ InThisLoop(cloop[c], t)
     THEN /\ outbuf[c] + size <= MaxOut
          /\ outbuf' = [outbuf EXCEPT ![c] = @ + size]
          /\ sendret' = Returned(c, size, TRUE)
          /\ UNCHANGED aborted
     ELSE aborted' = TRUE /\ UNCHANGED <<outbuf, sendret>>
  /\ actor' = t
  /\ UNCHANGED <<thrVars, loopVars, inboxVars, cliVars, logVars, regVars,
                 timerVars, cstate, trace, cloop, idle_timer, idle_timeout_ms,
                 last_active, now, inbuf>>

\* ActiveClose(sync) by thread t: destroy runs at once on the loop's thread;
\* another thread posts it and, when sync, waits for its future.
ActiveClose(t, c, sync) ==
  /\ ~aborted /\ AtUserCode(t) /\ Published(c)
  /\ IF InThisLoop(cloop[c], t)
     THEN /\ Destroy(t, c)
          /\ UNCHANGED <<tpc, script>>
     ELSE /\ DestroyTask(c, t) \notin fut
          /\ ~InSeq(DestroyTask(c, t), tasks[cloop[c]])
          /\ ~InSeq(DestroyTask(c, t), funcs[cloop[c]])
          /\ script' = [script EXCEPT ![t] =
                          <<PostOp(cloop[c], DestroyTask(c, t))>> \o
                          (IF sync THEN <<[op |-> "wait", c |-> DestroyTask(c, t)]>>
                                   ELSE <<>>)]
          /\ tpc' = [tpc EXCEPT ![t] = "run"]
          /\ UNCHANGED <<aborted, regVars, cstate, trace>>
  /\ actor' = t
  /\ UNCHANGED <<thrVars, loopVars, inboxVars, posted, logVars, timerVars,
                 connRest>>

\* idle thresholds passed to SetIdleTimeout, in ms
IdleTimeouts == {100, 200}
\* the period of the idle timer, in ms
IdlePeriod == 100

\* The schedule call that returned connection c's idle_timer_.
IdleSched(c) ==
  CHOOSE n \in 1..Len(sched) :
    /\ sched[n].conn = c /\ sched[n].id = idle_timer[c]
    /\ \A m \in 1..Len(sched) :
         (sched[m].conn = c /\ sched[m].id = idle_timer[c]) => m <= n
HasIdleSched(c) ==
  \E n \in 1..Len(sched) : sched[n].conn = c /\ sched[n].id = idle_timer[c]

\* SetIdleTimeout(timeout_ms), timeout_ms > 0, by thread t: idle_timeout_ms_ is
\* written, a previous idle timer is cancelled, a repeating timer is scheduled
\* and its id is written to idle_timer_. Nothing checks the thread: on a
\* thread other than the loop's the two writes are made by that thread and
\* Cancel and ScheduleRepeatedly post their closures.
SetIdleTimeout(t, c, ms) ==
  /\ ~aborted /\ AtUserCode(t) /\ Published(c)
  /\ Len(sched) < MaxSched
  /\ idle_timer[c] # -1 => (HasIdleSched(c) /\ Len(cancels) < MaxCancel)
  /\ idle_timeout_ms' = [idle_timeout_ms EXCEPT ![c] = ms]
  /\ LET l == cloop[c]
         has == idle_timer[c] # -1
         n == Len(sched) + 1
         k == Len(cancels) + 1 IN
     IF InThisLoop(l, t)
     THEN /\ timerid_generator' = Wrap(timerid_generator + 1, TimerIdMax)
          /\ cancels' = IF has
                        THEN Append(cancels,
                               Cancelled(CancelRecord(t, IdleSched(c), "pending", FALSE)))
                        ELSE cancels
          /\ \E a \in FetchAddPlusOne(timerid_generator, TimerIdMax) :
               IF a.trap
               THEN /\ aborted' = TRUE
                    /\ timers' = [timers EXCEPT ![l] =
                                    IF has THEN CancelTable(@, idle_timer[c]) ELSE @]
                    /\ UNCHANGED <<sched, fired, idle_timer>>
               ELSE /\ UNCHANGED aborted
                    /\ sched' = Append(sched,
                                  SchedRecord(t, l, a.id, TRUE, IdlePeriod, c, "returned"))
                    /\ fired' = Append(fired, 0)
                    /\ timers' = [timers EXCEPT ![l] =
                                    Schedule(IF has THEN CancelTable(@, idle_timer[c]) ELSE @,
                                             a.id, TimerRecord(n, TRUE, IdlePeriod))]
                    /\ idle_timer' = [idle_timer EXCEPT ![c] = a.id]
          /\ UNCHANGED <<tpc, script>>
     ELSE /\ cancels' = IF has
                        THEN Append(cancels, CancelRecord(t, IdleSched(c), "pending", FALSE))
                        ELSE cancels
          /\ script' = [script EXCEPT ![t] =
                          (IF has THEN <<PostOp(l, CancelTask(k))>> ELSE <<>>) \o
                          <<[op |-> "sched", conn |-> c]>>]
          /\ tpc' = [tpc EXCEPT ![t] = "run"]
          /\ UNCHANGED <<aborted, timerid_generator, timers, sched, fired, idle_timer>>
  /\ actor' = t
  /\ UNCHANGED <<thrVars, loopVars, inboxVars, posted, logVars, regVars,
                 cstate, trace, cloop, last_active, outbuf, now, inbuf, sendret>>

\* SetIdleTimeout on a thread other than the loop's, at its call of
\* ScheduleRepeatedly: the id is drawn and the arming closure is posted next.
SetIdleTimeoutSchedule(t) ==
  /\ ~aborted /\ tpc[t] = "run" /\ script[t] # <<>> /\ Head(script[t]).op = "sched"
  /\ LET c == Head(script[t]).conn IN
     \E a \in FetchAddPlusOne(timerid_generator, TimerIdMax) :
       ScheduleBody(t, cloop[c], TRUE, IdlePeriod, c, a,
                    <<[op |-> "setid", conn |-> c, n |-> Len(sched) + 1]>>)
  /\ actor' = t
  /\ UNCHANGED <<thrVars, loopVars, inboxVars, posted, logVars, regVars,
                 cancels, connVars>>

\* ... and at its last statement: idle_timer_ = the id ScheduleRepeatedly returned.
SetIdleTimeoutStore(t) ==
  /\ ~aborted /\ tpc[t] = "run" /\ script[t] # <<>> /\ Head(script[t]).op = "setid"
  /\ idle_timer' = [idle_timer EXCEPT ![Head(script[t]).conn] = sched[Head(script[t]).n].id]
  /\ script' = [script EXCEPT ![t] = Tail(@)]
  /\ tpc' = [tpc EXCEPT ![t] = IF Len(script[t]) = 1 THEN "idle" ELSE "run"]
  /\ actor' = t
  /\ UNCHANGED <<thrVars, aborted, loopVars, inboxVars, posted, logVars,
                 regVars, timerVars, cstate, trace, cloop, idle_timeout_ms,
                 last_active, outbuf, now, inbuf, sendret>>

\* ------------------------------------------------------------------ listener
\* EventLoop::Listen by thread t on loop l: a TcpListenerObj is made and Bind
\* registers it with an empty mask.
Listen(t, l) ==
  /\ ~aborted /\ ctor[l] # NoThread /\ AtUserCode(t)
  /\ uid[Listener(l)] = -1
  /\ RegisterEnter(t, l, Listener(l), {}, "bind")
  /\ actor' = t
  /\ UNCHANGED <<thrVars, loopVars, inboxVars, cliVars, logVars, timerVars,
                 connVars>>

\* The listener of loop l is bound and enabled.
Listening(l) == uid[Listener(l)] # -1 /\ reg[l] = NoReg

\* TcpListenerObj::OnNewConnection, dispatched by Poll on the listener's loop
\* l: the loop selector picks target, and create_conn runs at once when target
\* is this loop, or is posted to target's inbox.
OnNewConnection(l, target, c) ==
  /\ ~aborted /\ LoopFree(l) /\ pc[l] \in {"poll", "polled"}
  /\ Listening(l)
  /\ ctor[target] # NoThread
  /\ cstate[c] = Unborn /\ ~InFlight(c)
  /\ IF target = l
     THEN /\ CreateConn(ctor[l], l, c)
          /\ UNCHANGED <<tpc, script>>
     ELSE /\ script' = [script EXCEPT ![ctor[l]] = <<PostOp(target, CreateTask(c))>>]
          /\ tpc' = [tpc EXCEPT ![ctor[l]] = "run"]
          /\ UNCHANGED <<aborted, regVars, connVars>>
  /\ pc' = [pc EXCEPT ![l] = "polled"]
  /\ actor' = ctor[l]
  /\ UNCHANGED <<thrVars, running, inboxVars, posted, logVars, timerVars>>

\* -------------------------------------------------- bufferevent callbacks
\* the steady clock is followed up to MaxNow
MaxNow == 2

Tick ==
  /\ ~aborted /\ now < MaxNow
  /\ now' = now + 1
  /\ UNCHANGED <<thrVars, aborted, actor, loopVars, inboxVars, cliVars,
                 logVars, regVars, timerVars, cstate, trace, cloop, idle_timer,
                 idle_timeout_ms, last_active, outbuf, inbuf, sendret>>

\* The loop of connection c is in Poll and c is where its callbacks can run.
Dispatching(c) ==
  /\ cstate[c] # Unborn
  /\ LoopFree(cloop[c]) /\ pc[cloop[c]] \in {"poll", "polled"}

\* bytes counted in an input buffer, and on_message_ calls logged for one
\* connection, in a run of the model
MaxIn == 2
MaxTrace == 3

\* total_consumed after on_message_ returned the results rs: the positive
\* results add up, a result of 0 or less adds nothing.
RECURSIVE TotalConsumed(_)
TotalConsumed(rs) ==
  IF rs = <<>> THEN 0
  ELSE (IF Head(rs) > 0 THEN Head(rs) ELSE 0) + TotalConsumed(Tail(rs))

\* The while loop of OnRecvData over len bytes makes exactly the calls whose
\* results are rs: it goes on after a positive result while bytes are left,
\* and stops at a result of 0 or less or when total_consumed reaches len.
LoopRuns(len, rs) ==
  /\ rs # <<>>
  /\ \A i \in 1..(Len(rs) - 1) : rs[i] > 0 /\ TotalConsumed(SubSeq(rs, 1, i)) < len
  /\ rs[Len(rs)] <= 0 \/ TotalConsumed(rs) >= len

\* evbuffer_drain(input, n) on a buffer of len bytes: n bytes go, or all of
\* them when n is len or more; OnRecvData skips the call when n is 0.
DrainNothing(len, n) == len
Drain(len, n) == IF n >= len THEN 0 ELSE len - n

\* The on_message_ calls of one OnRecvData over len bytes, as logged.
MessageCalls(c, len, rs) ==
  [i \in 1..Len(rs) |-> on_message(c, len - TotalConsumed(SubSeq(rs, 1, i - 1)), rs[i])]

\* The on_message_ calls logged for connection c.
Messages(c) == Cardinality({i \in 1..Len(trace[c]) : trace[c][i].cb = "on_message"})

\* TcpObject::OnRecvData when k more bytes have arrived. There is no test of
\* state_: the callback is set by HandleConnect and stays while the object
\* lives, which after a disconnect is as long as a user handle holds it.
\* last_active_ is refreshed when an idle timer is set; on_message_ is called
\* with the results rs, the last of these calls also calling ActiveClose()
\* when close; total_consumed bytes are drained; a negative result ends in
\* HandleDisconnect.
OnRecvData(c, k, rs, close) ==
  /\ ~aborted /\ Dispatching(c) /\ cstate[c] \in {kConnected, kDisconnected}
  /\ Messages(c) + Len(rs) <= MaxTrace
  /\ inbuf[c] + k <= MaxIn
  /\ LET t == ctor[cloop[c]]
         len == inbuf[c] + k
         error == rs[Len(rs)] < 0
         tr == trace[c] \o MessageCalls(c, len, rs) IN
     /\ LoopRuns(len, rs)
     /\ inbuf' = [inbuf EXCEPT ![c] = Drain(len, TotalConsumed(rs))]
     /\ IF close /\ cstate[c] = kConnected
        THEN IF error
             THEN /\ cstate' = [cstate EXCEPT ![c] = kDisconnected]
                  /\ UnregisterTables(t, cloop[c], c)
                  /\ aborted' = ~ndebug
                  /\ trace' = Logged(c, tr \o (IF ndebug
                                               THEN <<on_disconnect(c), on_disconnect(c)>>
                                               ELSE <<on_disconnect(c)>>))
             ELSE HandleDisconnectAfter(t, c, tr)
        ELSE IF error
             THEN HandleDisconnectAfter(t, c, tr)
             ELSE trace' = Logged(c, tr) /\ UNCHANGED <<aborted, regVars, cstate>>
  /\ last_active' = [last_active EXCEPT ![c] = IF idle_timer[c] # -1 THEN now ELSE @]
  /\ pc' = [pc EXCEPT ![cloop[c]] = "polled"]
  /\ actor' = ctor[cloop[c]]
  /\ UNCHANGED <<thrVars, running, inboxVars, cliVars, logVars, timerVars,
                 cloop, idle_timer, idle_timeout_ms, outbuf, now, sendret>>

\* HandleConnectFailed: state_, on_fail_, then Unregister(this)
HandleConnectFailed(t, c) ==
  /\ cstate' = [cstate EXCEPT ![c] = kFailed]
  /\ trace' = Logged(c, Append(trace[c], on_fail(c)))
  /\ UnregisterEffect(t, cloop[c], c)

\* HandleConnect from OnEvent: state_, then on_new_conn_, which for some
\* connections calls ActiveClose().
HandleConnect(t, c) ==
  IF ClosesInNewConn(c)
  THEN /\ cstate' = [cstate EXCEPT ![c] = kDisconnected]
       /\ trace' = Logged(c, trace[c] \o <<on_new_conn(c), on_disconnect(c)>>)
       /\ UnregisterEffect(t, cloop[c], c)
  ELSE /\ cstate' = [cstate EXCEPT ![c] = kConnected]
       /\ trace' = Logged(c, Append(trace[c], on_new_conn(c)))
       /\ UNCHANGED <<aborted, regVars>>

\* bufferevent event bits
BEV_EVENT_EOF == "eof"
BEV_EVENT_ERROR == "error"
BEV_EVENT_CONNECTED == "connected"
BevEvents == {BEV_EVENT_EOF, BEV_EVENT_ERROR, BEV_EVENT_CONNECTED}

\* TcpObject::OnEvent(events)
OnEvent(c, ev) ==
  /\ ~aborted /\ Dispatching(c)
  /\ \/ /\ cstate[c] = kConnecting
        /\ IF ev = BEV_EVENT_CONNECTED
           THEN HandleConnect(ctor[cloop[c]], c)
           ELSE HandleConnectFailed(ctor[cloop[c]], c)
     \/ /\ cstate[c] = kConnected
        /\ IF ev = BEV_EVENT_EOF
           THEN HandleDisconnect(ctor[cloop[c]], c)
           ELSE UNCHANGED <<aborted, regVars, cstate, trace>>
  /\ pc' = [pc EXCEPT ![cloop[c]] = "polled"]
  /\ actor' = ctor[cloop[c]]
  /\ UNCHANGED <<thrVars, running, inboxVars, cliVars, logVars, timerVars,
                 connRest>>

\* ---------------------------------------------------------------- initially
\* The state once the threads of `on` have each constructed their loop (on
\* maps a loop to its thread, or to NoThread for a loop not constructed), with
\* the id generators at og and tg: nothing is registered, armed or posted yet.
InitBuild(on, og, tg, nd) ==
  /\ g_this_loop = [t \in Threads |->
                      IF \E l \in Loops : on[l] = t
                      THEN CHOOSE l \in Loops : on[l] = t
                      ELSE NoLoop]
  /\ ctor = on
  /\ aborted = FALSE
  /\ actor = "A"
  /\ running = [l \in Loops |-> TRUE]
  /\ pc = [l \in Loops |-> "init"]
  /\ task_mutex = [l \in Loops |-> Free]
  /\ tasks = [l \in Loops |-> <<>>]
  /\ funcs = [l \in Loops |-> <<>>]
  /\ pipe = [l \in Loops |-> 0]
  /\ tpc = [t \in Threads |-> "idle"]
  /\ script = [t \in Threads |-> <<>>]
  /\ posted = [t \in Threads |-> 0]
  /\ ran = <<>>
  /\ fut = {}
  /\ reactor = [l \in Loops |-> on[l] # NoThread]
  /\ objects = [l \in Loops |-> Empty]
  /\ robjects = [l \in Loops |-> Empty]
  /\ uid = [o \in Objects |-> -1]
  /\ obj_id_generator = og
  /\ reg = [l \in Loops |-> NoReg]
  /\ timerid_generator = tg
  /\ timers = [l \in Loops |-> Empty]
  /\ sched = <<>>
  /\ cancels = <<>>
  /\ fired = <<>>
  /\ cstate = [c \in Conns |-> Unborn]
  /\ cloop = [c \in Conns |-> NoLoop]
  /\ idle_timer = [c \in Conns |-> -1]
  /\ idle_timeout_ms = [c \in Conns |-> 0]
  /\ last_active = [c \in Conns |-> 0]
  /\ outbuf = [c \in Conns |-> 0]
  /\ now = 0
  /\ inbuf = [c \in Conns |-> 0]
  /\ sendret = NoReturn
  /\ trace = [c \in Conns |-> <<>>]
  /\ ndebug = nd
  /\ modret = NoModify
  /\ delivered = [o \in Objects |-> <<>>]

\* The same in a build that keeps its asserts.
InitState(on, og, tg) == InitBuild(on, og, tg, FALSE)

NoLoops == [l \in Loops |-> NoThread]
\* L1 constructed on thread A
OneLoop == [NoLoops EXCEPT !["L1"] = "A"]
\* L1 constructed on thread A and L2 on thread B
TwoLoops == [OneLoop EXCEPT !["L2"] = "B"]

InitLoops == InitState(TwoLoops, 0, 0)

\* The task inbox of loop L1 with A (its thread), B and C submitting.
NextTask ==
  \/ \E t \in Threads : Execute(t, "L1")
  \/ \E t \in Threads : PostLock(t)
  \/ \E t \in Threads : PostNotify(t)
  \/ \E t \in Threads : PostUnlock(t)
  \/ RunStart("L1")
  \/ RegisterStep("L1")
  \/ RunTryLock("L1")
  \/ RunTask("L1")
  \/ PollNotifier("L1")
  \/ PollReturn("L1")
  \/ \E t \in Threads : Stop(t, "L1")
  \/ RunExit("L1")

SpecTask == InitLoops /\ [][NextTask]_vars

\* ------------------------------------------------------------- task ordering
InInbox(c) == InSeq(c, tasks["L1"])
HasRun(c) == \E i \in 1..Len(ran) : ran[i].task = c

\* C1: two closures that one thread other than the loop's thread submitted to
\* the loop with Execute run on the loop in the order they were submitted.
C1_SubmissionOrder ==
  \A i, j \in 1..Len(ran) :
    (/\ i < j
     /\ ran[i].task.by = ran[j].task.by
     /\ ran[i].task.by # LoopThread("L1"))
    => ran[i].task.seq < ran[j].task.seq

\* Both closures of B have run, and one of C ran between them.
C1_Witness ==
  \E i, j, k \in 1..Len(ran) :
    /\ i < k /\ k < j
    /\ ran[i].task = PlainTask("B", 1)
    /\ ran[j].task = PlainTask("B", 2)
    /\ ran[k].task.by = "C"

\* C2: Execute on the loop's thread runs the closure before it returns and
\* leaves the inbox as it was; Execute on another thread runs nothing and
\* appends the closure to the inbox under the mutex; a closure is only ever
\* run by the loop's thread, and the future of a posted closure becomes ready
\* in the step in which the loop runs it from a batch it drained.
C2_ExecuteStep ==
  /\ \A t \in Threads :
       (actor' = t /\ posted'[t] = posted[t] + 1) =>
         LET c == PlainTask(t, posted'[t]) IN
         IF t = LoopThread("L1")
         THEN /\ tasks' = tasks
              /\ ran' = Append(ran, [task |-> c, on |-> t])
              /\ c \in fut'
         ELSE /\ script'[t] = <<PostOp("L1", c)>>
              /\ ran' = ran
              /\ fut' = fut
  /\ \A t \in Threads :
       (tpc[t] = "run" /\ tpc'[t] = "notify") =>
         /\ tasks'["L1"] = Append(tasks["L1"], Head(script[t]).c)
         /\ task_mutex'["L1"] = t
         /\ ran' = ran
         /\ fut' = fut
  /\ \A c \in fut' \ fut :
       /\ actor' = LoopThread("L1")
       /\ c.by # LoopThread("L1") => (pc["L1"] = "drain" /\ c = Head(funcs["L1"]))
  /\ \A i \in 1..Len(ran') : ran'[i].on = LoopThread("L1")
C2_ExecuteContract == [][C2_ExecuteStep]_vars

\* A closure of the loop's thread and one posted by B both have a ready future.
C2_Witness ==
  /\ PlainTask("A", 1) \in fut
  /\ PlainTask("B", 1) \in fut
  /\ InInbox(PlainTask("C", 1))

\* C3: a closure posted from another thread while the loop is in Run is
\* eventually run, unless the loop leaves Run.
C3_PostedEventuallyRuns ==
  \A t \in {"B", "C"} : \A n \in 1..MaxPost :
    (InInbox(PlainTask(t, n)) /\ pc["L1"] \notin {"init", "registering"})
      ~> (HasRun(PlainTask(t, n)) \/ pc["L1"] = "exited")

\* A posted closure waits in the inbox while the loop blocks in Poll with the
\* wake-up byte already consumed and no submitter left to write another.
C3_Witness ==
  /\ InInbox(PlainTask("B", 1))
  /\ pc["L1"] = "poll" /\ pipe["L1"] = 0 /\ running["L1"]
  /\ \A t \in Threads : tpc[t] = "idle" /\ posted[t] = MaxPost

\* The loop's thread keeps running once it is in Run, and a thread inside
\* Execute's critical section finishes it.
LoopSteps ==
  \/ RegisterStep("L1")
  \/ RunTryLock("L1")
  \/ RunTask("L1")
  \/ PollNotifier("L1")
  \/ PollReturn("L1")
  \/ RunExit("L1")
SubmitterSteps == \E t \in Threads : PostNotify(t) \/ PostUnlock(t)
SpecTaskFair == SpecTask /\ WF_vars(LoopSteps) /\ WF_vars(SubmitterSteps)

\* ------------------------------------------------------ one loop per thread
\* Threads construct loops, run them and stop them.
NextCtor ==
  \/ \E t \in Threads, l \in Loops : Construct(t, l)
  \/ \E l \in Loops : RunStart(l) \/ RegisterStep(l) \/ RunTryLock(l)
  \/ \E l \in Loops : PollNotifier(l) \/ PollReturn(l) \/ RunExit(l)
  \/ \E t \in Threads, l \in Loops : Stop(t, l)

SpecCtor == InitState(NoLoops, 0, 0) /\ [][NextCtor]_vars

\* The loops constructed on thread t.
LoopsOf(t) == {l \in Loops : ctor[l] = t}

\* C4: a thread has at most one loop; Self() on a thread is that loop, or null
\* when the thread constructed none; InThisLoop() of a loop is true on the
\* thread that constructed it and on no other; and the construction of a loop
\* on a thread that has one ends the process and associates nothing.
C4_Step ==
  /\ \A t \in Threads :
       /\ Cardinality(LoopsOf(t)') <= 1
       /\ Self(t)' = NoLoop <=> LoopsOf(t)' = {}
       /\ Self(t)' # NoLoop => LoopsOf(t)' = {Self(t)'}
  /\ \A l \in Loops : ctor'[l] # NoThread =>
       \A t \in Threads : InThisLoop(l, t)' <=> t = ctor'[l]
  /\ (aborted' /\ ~aborted) => (Self(actor') # NoLoop /\ ctor' = ctor)
  /\ \A l \in Loops : (ctor[l] = NoThread /\ ctor'[l] # NoThread) =>
       (ctor'[l] = actor' /\ Self(actor') = NoLoop /\ ~aborted')
NextAffinity ==
  \/ posted["C"] < MaxCalls /\ Execute("C", "L1")
  \/ \E repeat \in BOOLEAN, ms \in Delays :
       Len(sched) < MaxCalls /\ ScheduleCall("C", "L1", repeat, ms)
  \/ \E t \in {"A", "C"} : Len(cancels) < MaxCalls /\ CancelCall(t, 1)
  \/ \E sync \in BOOLEAN : cloop["c1"] = "L1" /\ ActiveClose("C", "c1", sync)
  \/ Listen("B", "L2")
  \/ \E target \in {"L1", "L2"} : OnNewConnection("L2", target, "c1")
  \/ UserRegister("C", "L1", "o1", {kEventRead})
  \/ UserUnregister("C", "L1", "c1")
  \/ \E t \in Threads : PostLock(t) \/ PostNotify(t) \/ PostUnlock(t) \/ WaitFuture(t)
  \/ \E l \in {"L1", "L2"} : RunStart(l) \/ RegisterStep(l) \/ RunTryLock(l)
  \/ RunTask("L1") \/ PollNotifier("L1") \/ PollReturn("L1")
  \/ \E id \in -(TimerIdMax + 1)..TimerIdMax : Elapse("L1", id) \/ PollTimer("L1", id)

SpecAffinity == InitState(TwoLoops, 0, 0) /\ [][NextAffinity]_vars

\* The registry of loop l and the registration and timer tables of its reactor.
\* (Whether a timer's delay has elapsed is not part of a table.)
Tables(l) ==
  <<objects[l], robjects[l],
    [id \in DOMAIN timers[l] |-> [timers[l][id] EXCEPT !.due = FALSE]]>>

\* C5: every change of a loop's registry and of its reactor's registration
\* and timer tables is made by the loop's thread, and Register, Modify and
\* Unregister called on another thread end the process.
C5_Step ==
  /\ \A l \in Loops : Tables(l)' # Tables(l) => actor' = LoopThread(l)
  /\ \A t \in Threads, l \in {"L1", "L2"}, o \in {"o1", "c1"} :
       (/\ t # LoopThread(l) /\ actor' = t
        /\ \/ UserRegister(t, l, o, {kEventRead})
           \/ UserModify(t, l, o, {kEventRead})
           \/ UserUnregister(t, l, o))
       => aborted'
NextConn ==
  \/ \E t \in {"A", "B"} : Connect(t, "L1", "c1")
  \/ OnAccept("B", "L1", "c2")
  \/ \E t \in {"A", "B"} : SendPacket(t, "c1", 1)
  \/ \E t \in {"A", "B"}, ms \in IdleTimeouts :
       Len(sched) < MaxCalls /\ SetIdleTimeout(t, "c1", ms)
  \/ \E t \in {"A", "B"}, sync \in BOOLEAN : ActiveClose(t, "c1", sync)
  \/ \E t \in Threads : SetIdleTimeoutSchedule(t) \/ SetIdleTimeoutStore(t)
  \/ \E t \in Threads : PostLock(t) \/ PostNotify(t) \/ PostUnlock(t) \/ WaitFuture(t)
  \/ RunStart("L1") \/ RegisterStep("L1") \/ RunTryLock("L1") \/ RunTask("L1")
  \/ PollNotifier("L1") \/ PollReturn("L1")
  \/ \E ev \in BevEvents : OnEvent("c1", ev)
  \/ \E rs \in {<<1>>, <<-1>>} :
       Len(trace["c1"]) <= MaxCalls /\ OnRecvData("c1", 1, rs, FALSE)
  \/ Tick
  \/ \E id \in -(TimerIdMax + 1)..TimerIdMax : Elapse("L1", id) \/ PollTimer("L1", id)

SpecConn == InitState(OneLoop, 0, 0) /\ [][NextConn]_vars

\* C6: once a connection is constructed, its fields (state, idle timer id,
\* idle threshold, last-activity time, output buffer) are only written by the
\* thread of its loop.
C6_Step ==
  \A c \in Conns :
    (cstate[c] # Unborn /\ ConnFields(c)' # ConnFields(c))
      => actor' = LoopThread(cloop[c])
C6_FieldsOnLoopThread == [][C6_Step]_vars

\* ------------------------------------------------------------ unique ids
\* Two loops, on A and on B, whose threads register and unregister objects
\* before and at the start of Run; the id generator starts anywhere in its
\* non-negative range, as other objects have come and gone before.
NextReg ==
  \/ \E t \in {"A", "B"}, l \in {"L1", "L2"}, o \in Objs, ev \in {{}, {kEventRead}} :
       UserRegister(t, l, o, ev)
  \/ \E t \in {"A", "B"}, l \in {"L1", "L2"}, o \in Objs : UserUnregister(t, l, o)
  \/ \E l \in {"L1", "L2"} : RunStart(l) \/ RegisterStep(l)

SpecReg ==
  /\ \E og \in 0..ObjIdMax : InitState(TwoLoops, og, 0)
  /\ [][NextReg]_vars

\* C7: no two entries of a loop's registry hold objects with the same unique
\* id, every object in a registry is filed under its own unique id, and the
\* id a Register call gives its object is not held by an object in the
\* registry of the registering loop.
C7_Step ==
  /\ \A l \in Loops :
       \A k1, k2 \in DOMAIN objects'[l] :
         /\ uid'[objects'[l][k1]] = k1
         /\ k1 # k2 => uid'[objects'[l][k1]] # uid'[objects'[l][k2]]
  /\ \A l \in Loops :
       (reg[l] # NoReg /\ uid'[reg[l].obj] # uid[reg[l].obj]) =>
         uid'[reg[l].obj] \notin DOMAIN objects[l]
NextWrap ==
  \/ \E ms \in Delays : ScheduleCall("A", "L1", TRUE, ms) \/ ScheduleCall("B", "L1", FALSE, ms)
  \/ \E t \in Threads : PostLock(t) \/ PostNotify(t) \/ PostUnlock(t)
  \/ RunStart("L1") \/ RegisterStep("L1") \/ RunTryLock("L1") \/ RunTask("L1")
  \/ PollNotifier("L1") \/ PollReturn("L1")
  \/ \E id \in -(TimerIdMax + 1)..TimerIdMax : Elapse("L1", id) \/ PollTimer("L1", id)

SpecWrap == InitState(OneLoop, 0, 0) /\ [][NextWrap]_vars

\* The timer ids in use: the keys of the timer tables.
ArmedIds == UNION {DOMAIN timers[l] : l \in Loops}

\* C8: the id a ScheduleLater / ScheduleRepeatedly call draws is not the id
\* of a timer that is armed, and a record in a timer table is never replaced
\* by the record of another schedule call.
C8_Step ==
  /\ Len(sched') > Len(sched) => sched'[Len(sched')].id \notin ArmedIds
  /\ \A l \in Loops : \A id \in DOMAIN timers[l] \cap DOMAIN timers'[l] :
       timers'[l][id].n = timers[l][id].n
C8_UniqueTimerIds == [][C8_Step]_vars

\* Loop L1 on thread A; A and B call ScheduleLater on it, and A, B and C
\* cancel with the ids returned.
NextTimer ==
  \/ \E t \in {"A", "B"}, ms \in Delays :
       Len(sched) < MaxLater /\ ScheduleCall(t, "L1", FALSE, ms)
  \/ \E t \in Threads, n \in 1..MaxLater : CancelCall(t, n)
  \/ \E t \in Threads : PostLock(t) \/ PostNotify(t) \/ PostUnlock(t)
  \/ RunStart("L1") \/ RegisterStep("L1") \/ RunTryLock("L1") \/ RunTask("L1")
  \/ PollNotifier("L1") \/ PollReturn("L1")
  \/ \E id \in -(TimerIdMax + 1)..TimerIdMax : Elapse("L1", id) \/ PollTimer("L1", id)

SpecTimer == InitState(OneLoop, 0, 0) /\ [][NextTimer]_vars

\* Cancel call k is the only Cancel made with the id of its schedule call.
OnlyCancel(k) == \A j \in 1..Len(cancels) : j # k => cancels[j].n # cancels[k].n
\* Cancel call k was made by the thread that made the ScheduleLater call.
BySameThread(k) ==
  cancels[k].by = sched[cancels[k].n].by /\ ~sched[cancels[k].n].repeat

\* C9: a Cancel by the thread that called ScheduleLater, made before the
\* delay elapsed, has a future of true and f is never invoked.
C9_CancelBeforeElapse ==
  \A k \in 1..Len(cancels) :
    (BySameThread(k) /\ OnlyCancel(k) /\ cancels[k].early /\ cancels[k].res # "pending")
      => (cancels[k].res = "true" /\ fired[cancels[k].n] = 0)

\* C9, as the code has it: such a Cancel has a future of true and f is never
\* invoked when, at the moment the cancel is run on the loop's thread, the
\* timer armed for f is still in the table and f has not run.
C9_CancelWhileArmed ==
  \A k \in 1..Len(cancels) :
    (/\ BySameThread(k) /\ OnlyCancel(k) /\ cancels[k].early
     /\ cancels[k].res # "pending" /\ cancels[k].live)
      => (cancels[k].res = "true" /\ fired[cancels[k].n] = 0)

\* B's Cancel, posted before the delay elapsed, found the timer armed when the
\* loop ran it; and the loop's own thread cancelled a timer it had armed.
C9_Witness ==
  \E k, j \in 1..Len(cancels) :
    /\ BySameThread(k) /\ cancels[k].by = "B" /\ cancels[k].early
    /\ cancels[k].live /\ cancels[k].res = "true"
    /\ BySameThread(j) /\ cancels[j].by = "A" /\ cancels[j].res = "true"

\* C10: a timer scheduled from another thread than the loop's and cancelled,
\* by any thread, after its id was returned and before the arming closure
\* ran: the Cancel's future is true, the timer is not armed and f never runs.
C10_CancelInWindow ==
  \A k \in 1..Len(cancels) :
    (/\ sched[cancels[k].n].by # LoopThread(cancels[k].loop)
     /\ OnlyCancel(k) /\ cancels[k].window /\ cancels[k].res # "pending")
      => (/\ cancels[k].res = "true"
          /\ ~TimerLive(cancels[k].n)
          /\ fired[cancels[k].n] = 0)

\* ------------------------------------------------------ cancelling timers
\* fires of one timer followed where a callback cancels
MaxRefire == 2

\* LibeventReactor::TimerCallback for a due timer whose callback f calls
\* Cancel with the id of schedule call n (its own id or another timer's): f
\* starts, loop->Cancel runs at once on the loop's thread, and after f the
\* reactor cancels the id of a one-shot timer. Erasing a record destroys the
\* Timer, whose destructor frees the event: a timer made active in this Poll
\* iteration is not dispatched once its record is erased.
PollTimerCancelling(l, id, n) ==
  /\ ~aborted /\ LoopFree(l) /\ pc[l] \in {"poll", "polled"}
  /\ id \in DOMAIN timers[l] /\ timers[l][id].due
  /\ n \in 1..Len(sched) /\ sched[n].loop = l /\ sched[n].st = "returned"
  /\ Len(cancels) < MaxCancel
  /\ LET r == timers[l][id]
         k == Len(cancels) + 1
         inf == CancelTable(timers[l], sched[n].id) IN
     /\ sched[r.n].conn = "none"
     /\ fired[r.n] < MaxRefire
     /\ fired' = [fired EXCEPT ![r.n] = @ + 1]
     /\ cancels' = Append(cancels, Cancelled(CancelRecord(ctor[l], n, "pending", FALSE)))
     /\ ran' = Append(ran, [task |-> [kind |-> "timer", n |-> r.n, k |-> k],
                            on |-> ctor[l]])
     /\ timers' = [timers EXCEPT ![l] =
                     IF r.repeat
                     THEN IF id \in DOMAIN inf
                          THEN [inf EXCEPT ![id].due = FALSE] ELSE inf
                     ELSE CancelTable(inf, id)]
  /\ pc' = [pc EXCEPT ![l] = "polled"]
  /\ actor' = ctor[l]
  /\ UNCHANGED <<thrVars, aborted, running, inboxVars, cliVars, fut, regVars,
                 timerid_generator, sched, connVars>>

\* Cancel(id) called by the loop's thread after Run has returned
CancelAfterRun(l, n) ==
  /\ ~aborted /\ pc[l] = "exited" /\ tpc[ctor[l]] = "idle"
  /\ n \in 1..Len(sched) /\ sched[n].loop = l /\ sched[n].st = "returned"
  /\ Len(cancels) < MaxCancel
  /\ CancelBody(ctor[l], n, <<>>)
  /\ actor' = ctor[l]
  /\ UNCHANGED <<thrVars, aborted, loopVars, inboxVars, posted, logVars,
                 regVars, timerid_generator, sched, fired, connVars>>

\* Loop L1 on thread A. A arms one-shot and repeating timers, B one-shot timers, A and B cancel
\* them, from user code and from timer callbacks, and the loop is stopped.
NextCancel ==
  \/ \E repeat \in BOOLEAN, ms \in Delays :
       Len(sched) < MaxLater /\ ScheduleCall("A", "L1", repeat, ms)
  \/ \E ms \in Delays : Len(sched) < MaxLater /\ ScheduleCall("B", "L1", FALSE, ms)
  \/ \E t \in {"A", "B"}, n \in 1..MaxLater : CancelCall(t, n)
  \/ \E n \in 1..MaxLater : CancelAfterRun("L1", n)
  \/ \E t \in Threads : PostLock(t) \/ PostNotify(t) \/ PostUnlock(t)
  \/ RunStart("L1") \/ RegisterStep("L1") \/ RunTryLock("L1") \/ RunTask("L1")
  \/ PollNotifier("L1") \/ PollReturn("L1")
  \/ Stop("A", "L1") \/ RunExit("L1")
  \/ \E id \in -(TimerIdMax + 1)..TimerIdMax :
       \/ Elapse("L1", id)
       \/ PollTimer("L1", id)
       \/ \E n \in 1..MaxLater : PollTimerCancelling("L1", id, n)

SpecCancel == InitState(OneLoop, 0, 0) /\ [][NextCancel]_vars

\* Schedule call n's timer has been cancelled with a future of true.
CancelledTrue(n) ==
  \E k \in 1..Len(cancels) : cancels[k].n = n /\ cancels[k].res = "true"
\* Callback invocations logged with the Cancel call each made.
CallbackCancels == {ran[i].task : i \in {j \in 1..Len(ran) : ran[j].task.kind = "timer"}}

\* C11: once a Cancel with a timer's id has resolved to true, the timer's
\* callback is never started again, for one-shot and repeating timers, also
\* when the Cancel was made inside the timer's own callback or inside the
\* callback of another timer that was due in the same Poll iteration.
C11_Step ==
  \A n \in 1..Len(sched) : CancelledTrue(n) => fired'[n] = fired[n]
C11_CancelIsFinal == [][C11_Step]_vars

\* A repeating timer cancelled true from inside its own callback, and a timer
\* that was due cancelled true from inside the callback of another one.
C11_Witness ==
  /\ \E c \in CallbackCancels :
       /\ cancels[c.k].n = c.n /\ sched[c.n].repeat /\ cancels[c.k].res = "true"
  /\ \E c \in CallbackCancels :
       /\ cancels[c.k].n # c.n /\ cancels[c.k].res = "true"
       /\ ~cancels[c.k].early /\ fired[cancels[c.k].n] = 0

\* The Cancel of record k is run on the loop's thread in this step.
CancelRuns(k) ==
  /\ k \in 1..Len(cancels')
  /\ cancels'[k].res # "pending"
  /\ k \in 1..Len(cancels) => cancels[k].res = "pending"

\* C12: a Cancel resolves to true exactly when, as it runs on the loop's
\* thread, the reactor exists and its timer table holds a record with the id,
\* and that record is then removed; otherwise (id not armed, one-shot timer
\* already fired, id already cancelled, reactor torn down) it resolves to false
\* and the Cancel leaves the timer table as it was.
C12_Step ==
  \A k \in 1..Len(cancels') :
    CancelRuns(k) =>
      LET l == cancels'[k].loop
          id == cancels'[k].id
          found == reactor[l] /\ id \in DOMAIN timers[l] IN
      /\ cancels'[k].res = "true" <=> found
      /\ found => /\ id \notin DOMAIN timers'[l]
                  /\ fired' = fired =>
                       \A x \in DOMAIN timers[l] \ {id} :
                         x \in DOMAIN timers'[l] /\ timers'[l][x] = timers[l][x]
      /\ (~found /\ fired' = fired) => timers'[l] = timers[l]
C12_CancelResult == [][C12_Step]_vars

\* A timer that B scheduled from its own thread is cancelled with true once
\* armed, a second Cancel of its id resolves to false, and the reactor of the
\* loop has been torn down by then.
C12_Witness ==
  /\ Len(cancels) = 2 /\ ~reactor["L1"]
  /\ cancels[1].res = "true" /\ sched[cancels[1].n].by = "B"
  /\ cancels[2].res = "false" /\ cancels[2].n = cancels[1].n

\* ---------------------------------------------------- connection lifecycle
\* Loop L1 on thread A, built with or without asserts. One connection, c1 or
\* c2, is accepted by L1's listener or made by Connect; the bufferevent
\* reports events and data; A (before Run) and the thread B, which has no
\* loop, close it, and so does an on_message_ callback.
LifeConns == {"c1", "c2"}
\* results of on_message_, and the results of the calls of one OnRecvData
Results == {-1, 0, 1, 2}
Batches == {<<r>> : r \in Results} \cup {<<1, r>> : r \in Results}
\* no connection has been made yet
NoConnYet == \A c \in Conns : cstate[c] = Unborn /\ ~InFlight(c)

NextLife ==
  \/ Listen("A", "L1")
  \/ \E c \in LifeConns : NoConnYet /\ OnNewConnection("L1", "L1", c)
  \/ \E c \in LifeConns : NoConnYet /\ Connect("A", "L1", c)
  \/ \E c \in LifeConns, ev \in BevEvents : OnEvent(c, ev)
  \/ \E c \in LifeConns, k \in 1..MaxIn, rs \in Batches, close \in BOOLEAN :
       OnRecvData(c, k, rs, close)
  \/ \E t \in {"A", "B"}, c \in LifeConns : ActiveClose(t, c, FALSE)
  \/ \E t \in Threads : PostLock(t) \/ PostNotify(t) \/ PostUnlock(t)
  \/ RunStart("L1") \/ RegisterStep("L1") \/ RunTryLock("L1") \/ RunTask("L1")
  \/ PollNotifier("L1") \/ PollReturn("L1")

InitLife == \E nd \in BOOLEAN : InitBuild(OneLoop, 0, 0, nd)
SpecLife == InitLife /\ [][NextLife]_vars

\* The callbacks a step invokes on connection c, in order.
NewCalls(c) == SubSeq(trace'[c], Len(trace[c]) + 1, Len(trace'[c]))
Invokes(c, what) == \E i \in 1..Len(NewCalls(c)) : NewCalls(c)[i].cb = what

\* The states a step takes connection c through: a connection is constructed
\* in state None, and a step that invokes on_new_conn has made it Connected.
StatesThrough(c) ==
  <<IF cstate[c] = Unborn THEN kNone ELSE cstate[c]>> \o
  (IF Invokes(c, "on_new_conn") THEN <<kConnected>> ELSE <<>>) \o
  <<cstate'[c]>>

\* The edges of the connection state machine.
Edges ==
  {<<kNone, kConnected>>, <<kNone, kConnecting>>, <<kConnecting, kConnected>>,
   <<kConnecting, kFailed>>, <<kConnected, kDisconnected>>}

\* C13: the state of a connection changes only along None -> Connected,
\* None -> Connecting, Connecting -> Connected, Connecting -> Failed and
\* Connected -> Disconnected; Disconnected and Failed are never left.
C13_Step ==
  \A c \in LifeConns :
    cstate'[c] # Unborn =>
      LET p == StatesThrough(c) IN
      \A i \in 1..(Len(p) - 1) : p[i] # p[i + 1] => <<p[i], p[i + 1]>> \in Edges
C13_StateEdges == [][C13_Step]_vars

\* Connection c1 is Disconnected, and on_message_ has been invoked on it
\* again after its on_disconnect: the terminal state met a further event.
C13_Witness ==
  /\ cstate["c1"] = kDisconnected
  /\ \E i \in 1..Len(trace["c1"]) :
       /\ trace["c1"][i].cb = "on_disconnect"
       /\ \E j \in (i + 1)..Len(trace["c1"]) : trace["c1"][j].cb = "on_message"

\* Connection c is in the registry of its loop.
Registered(c) ==
  cloop[c] # NoLoop /\ \E id \in DOMAIN objects[cloop[c]] : objects[cloop[c]][id] = c

\* A handler of connection c is executing: the create_conn that made it is
\* still inside its Register call. (Every other handler is one step.)
InHandler(c) == cloop[c] # NoLoop /\ reg[cloop[c]] # NoReg /\ reg[cloop[c]].obj = c

\* C14: a connection that is Disconnected or Failed while none of its handlers
\* is executing is not in the registry of its loop.
C14_TerminalUnregistered ==
  \A c \in LifeConns :
    (cstate[c] \in {kDisconnected, kFailed} /\ ~InHandler(c)) => ~Registered(c)

\* The places in connection c's log where callback what was invoked.
CallsOf(c, what) == {i \in 1..Len(trace[c]) : trace[c][i].cb = what}

\* C15: on_disconnect and on_connect_fail are invoked at most once together
\* for a connection, on_disconnect only after it became Connected and
\* on_connect_fail only when it never did.
C15_OneTerminalCallback ==
  \A c \in LifeConns :
    /\ Cardinality(CallsOf(c, "on_disconnect") \cup CallsOf(c, "on_fail")) <= 1
    /\ \A i \in CallsOf(c, "on_disconnect") :
         \E j \in CallsOf(c, "on_new_conn") : j < i
    /\ CallsOf(c, "on_fail") # {} => CallsOf(c, "on_new_conn") = {}

\* ----------------------------------------------------------------- sending
\* Loop L1 on thread A, built with or without asserts, and connection c1 made
\* by Connect. A (before Run and in tasks that B posts) and B send 0 to
\* MaxOut bytes in every state of the connection; B closes it.
NextSend ==
  \/ Connect("A", "L1", "c1")
  \/ \E ev \in BevEvents : OnEvent("c1", ev)
  \/ \E t \in {"A", "B"}, size \in 0..MaxOut : SendPacket(t, "c1", size)
  \/ posted["B"] < MaxCalls /\ Execute("B", "L1")
  \/ ActiveClose("B", "c1", FALSE)
  \/ \E t \in Threads : PostLock(t) \/ PostNotify(t) \/ PostUnlock(t)
  \/ RunStart("L1") \/ RegisterStep("L1") \/ RunTryLock("L1") \/ RunTask("L1")
  \/ PollNotifier("L1") \/ PollReturn("L1")

SpecSend == InitLife /\ [][NextSend]_vars

\* C16: a SendPacket call that returns gives true and appends exactly its
\* bytes to the output buffer when the connection is Connected, and in every
\* other state gives false and leaves the buffer alone; the state is the same
\* after it.
C16_Step ==
  \A t \in {"A", "B"}, size \in 0..MaxOut :
    (SendPacket(t, "c1", size) /\ ~aborted') =>
      /\ sendret'.conn = "c1" /\ sendret'.size = size
      /\ cstate' = cstate
      /\ IF cstate["c1"] = kConnected
         THEN sendret'.ret /\ outbuf'["c1"] = outbuf["c1"] + size
         ELSE ~sendret'.ret /\ outbuf' = outbuf
IsMessage(e) == e.cb = "on_message"
NewMessages(c) == SelectSeq(NewCalls(c), IsMessage)
ResultsOf(s) == [i \in 1..Len(s) |-> s[i].ret]
\* The bytes a receive batch of connection c found in the input buffer (those
\* offered to its first on_message_ call) and the bytes it removed.
Offered(c) == NewMessages(c)[1].len
Removed(c) == Offered(c) - inbuf'[c]

\* C17 as stated: the bytes a receive batch removes from the input buffer are
\* the sum of the positive results of its on_message calls, also when a result
\* is larger than the bytes offered.
C17_DrainedStep ==
  \A c \in LifeConns :
    NewMessages(c) # <<>> => Removed(c) = TotalConsumed(ResultsOf(NewMessages(c)))
C17_RemovedIsSum == [][C17_DrainedStep]_vars

\* C17, amended: the bytes a receive batch removes from the input buffer are
\* the sum of the positive results of its on_message calls, or all the bytes
\* of the buffer when the sum is larger; the rest stays for the next batch.
C17_CappedStep ==
  \A c \in LifeConns :
    NewMessages(c) # <<>> =>
      LET sum == TotalConsumed(ResultsOf(NewMessages(c))) IN
      /\ Removed(c) = IF sum > Offered(c) THEN Offered(c) ELSE sum
      /\ inbuf'[c] = Offered(c) - Removed(c)
      /\ Offered(c) >= inbuf[c]
C17_RemovedIsSumOrAll == [][C17_CappedStep]_vars

\* Connection c1 has had a batch in which on_message returned 0 and one byte
\* stayed in the buffer, and then a batch over two bytes whose second call
\* returned 2 for the one byte offered: the buffer is empty.
C17_Witness ==
  /\ inbuf["c1"] = 0
  /\ \E i \in 1..Len(trace["c1"]) :
       /\ trace["c1"][i] = on_message("c1", 1, 0)
       /\ i + 2 <= Len(trace["c1"])
       /\ trace["c1"][i + 1] = on_message("c1", 2, 1)
       /\ trace["c1"][i + 2] = on_message("c1", 1, 2)

\* C18: once on_message has returned a negative value for a connection, the
\* connection is Disconnected, on_disconnect has been invoked after that call,
\* and on_message is not invoked on it again, whatever arrives later.
C18_NegativeIsFinal ==
  \A c \in LifeConns :
    \A i \in CallsOf(c, "on_message") :
      (trace[c][i].ret < 0 /\ ~aborted) =>
        /\ cstate[c] = kDisconnected
        /\ \E j \in CallsOf(c, "on_disconnect") : j > i
        /\ \A j \in CallsOf(c, "on_message") : j <= i

\* ------------------------------------------------------------ active close
\* Loop L1 on thread A, built with or without asserts, with connection c1
\* accepted by its listener or made by Connect. A (in a task) and the thread
\* B, which has no loop, call ActiveClose on c1 while it is Connected, B with
\* sync or without; the peer closes too; thread C stops the loop.
NextClose ==
  \/ Listen("A", "L1")
  \/ NoConnYet /\ OnNewConnection("L1", "L1", "c1")
  \/ NoConnYet /\ Connect("A", "L1", "c1")
  \/ \E ev \in BevEvents : OnEvent("c1", ev)
  \/ \E t \in {"A", "B"}, sync \in BOOLEAN :
       cstate["c1"] = kConnected /\ ActiveClose(t, "c1", sync)
  \/ \E t \in Threads : PostLock(t) \/ PostNotify(t) \/ PostUnlock(t) \/ WaitFuture(t)
  \/ RunStart("L1") \/ RegisterStep("L1") \/ RunTryLock("L1") \/ RunTask("L1")
  \/ PollNotifier("L1") \/ PollReturn("L1")
  \/ Stop("C", "L1") \/ RunExit("L1")

SpecClose == InitLife /\ [][NextClose]_vars

\* Thread t is inside ActiveClose(sync = true) on connection c: its closure is
\* to be posted or has been, and fut.get() has not returned.
InSyncClose(t, c) ==
  \E i \in 1..Len(script[t]) :
    script[t][i].op = "wait" /\ script[t][i].c = DestroyTask(c, t)

\* The three effects of a close on connection c are in place.
Closed(c) ==
  /\ cstate[c] = kDisconnected
  /\ CallsOf(c, "on_disconnect") # {}
  /\ ~Registered(c)

\* C19: ActiveClose on a Connected connection called on the loop's thread has
\* made it Disconnected, invoked on_disconnect and unregistered it when it
\* returns; ActiveClose(sync = true) called on another thread returns with
\* the same three effects in place, and they are made by the loop's thread.
C19_Step ==
  /\ \A sync \in BOOLEAN :
       (cstate["c1"] = kConnected /\ ActiveClose("A", "c1", sync) /\ ~aborted')
         => (Closed("c1")' /\ Invokes("c1", "on_disconnect") /\ tpc'["A"] = "idle")
  /\ (InSyncClose("B", "c1") /\ ~InSyncClose("B", "c1")') => Closed("c1")
  /\ cstate'["c1"] = kDisconnected /\ cstate["c1"] # kDisconnected
       => actor' = LoopThread(cloop'["c1"])
C19_CloseEffects == [][C19_Step]_vars

\* B's ActiveClose(sync = true) on c1 has returned, the loop's thread having
\* run its closure while the loop was in Run, and c1 is closed.
C19_Witness ==
  /\ DestroyTask("c1", "B") \in fut
  /\ tpc["B"] = "idle" /\ script["B"] = <<>>
  /\ Closed("c1")
  /\ \E i \in 1..Len(trace["c1"]) : trace["c1"][i] = on_new_conn("c1")
  /\ pc["L1"] # "exited"

\* The loop's thread keeps running once it is in Run, and a thread inside
\* ActiveClose goes on: it takes the mutex when it is free, appends, notifies,
\* unlocks, and returns from fut.get() once the future is ready.
CloseLoopSteps ==
  \/ RegisterStep("L1") \/ RunTryLock("L1") \/ RunTask("L1")
  \/ PollNotifier("L1") \/ PollReturn("L1") \/ RunExit("L1")
CloseCallerSteps ==
  \E t \in Threads : PostLock(t) \/ PostNotify(t) \/ PostUnlock(t) \/ WaitFuture(t)
SpecCloseFair == SpecClose /\ WF_vars(CloseLoopSteps) /\ WF_vars(CloseCallerSteps)

\* C20: a call of ActiveClose(sync = true) made on a thread other than the
\* loop's returns in the end, however it interleaves with Stop() and with the
\* loop leaving Run.
C20_SyncCloseReturns ==
  InSyncClose("B", "c1") ~> (~InSyncClose("B", "c1") \/ aborted)

\* ------------------------------------------------------------ timer delays
\* duration_cast<milliseconds> of a duration of us microseconds: the quotient
\* is truncated toward zero.
duration_cast(us) == IF us >= 0 THEN us \div 1000 ELSE -((-us) \div 1000)

\* The Duration overloads of ScheduleLater and ScheduleRepeatedly:
\* std::max(milliseconds(1), duration_cast<milliseconds>(d)), handed to the
\* int overload.
DurationMs(us) == IF duration_cast(us) < 1 THEN 1 ELSE duration_cast(us)

ScheduleDuration(t, l, repeat, us) == ScheduleCall(t, l, repeat, DurationMs(us))

\* delays asked of the int overloads, in ms, and of the Duration overloads,
\* in microseconds
RequestedMs == {-1, 0, 1, 100}
RequestedUs == {-1000, 0, 999, 2000}

\* Loop L1 on thread A; A (before Run) and B arm one-shot and repeating
\* timers through both kinds of overload.
NextDelay ==
  \/ \E t \in {"A", "B"}, repeat \in BOOLEAN, ms \in RequestedMs :
       Len(sched) < MaxLater /\ ScheduleCall(t, "L1", repeat, ms)
  \/ \E t \in {"A", "B"}, repeat \in BOOLEAN, us \in RequestedUs :
       Len(sched) < MaxLater /\ ScheduleDuration(t, "L1", repeat, us)
  \/ \E t \in Threads : PostLock(t) \/ PostNotify(t) \/ PostUnlock(t)
  \/ RunStart("L1") \/ RegisterStep("L1") \/ RunTryLock("L1") \/ RunTask("L1")
  \/ PollNotifier("L1") \/ PollReturn("L1")

SpecDelay == InitState(OneLoop, 0, 0) /\ [][NextDelay]_vars

\* C21: every timer in a reactor's table is armed with a delay or period of
\* at least 1 ms, whatever value was asked of ScheduleLater or
\* ScheduleRepeatedly.
C21_DelayAtLeastOne ==
  \A l \in Loops : \A id \in DOMAIN timers[l] : timers[l][id].ms >= 1

\* ------------------------------------------------------ registry and watches
\* Loop L1 on its own thread A, in a build with asserts or with NDEBUG: A
\* registers, modifies and unregisters an object with every mask before Run,
\* and the loop is stopped and leaves Run. Registrations are made while the id
\* generator is below MaxWatchIds.
WatchObjs == {"o1"}
MaxWatchIds == 3
NextWatch ==
  \/ \E o \in WatchObjs, ev \in Masks :
       obj_id_generator < MaxWatchIds /\ UserRegister("A", "L1", o, ev)
  \/ \E o \in WatchObjs, ev \in Masks : UserModify("A", "L1", o, ev)
  \/ \E o \in WatchObjs : UserUnregister("A", "L1", o)
  \/ RunStart("L1") \/ RegisterStep("L1")
  \/ Stop("A", "L1") \/ RunExit("L1")

SpecWatch == InitLife /\ [][NextWatch]_vars

\* o is in loop l's registry (objects_), under whatever key.
InRegistry(l, o) == \E id \in DOMAIN objects[l] : objects[l][id] = o

\* C22: while Register(obj, events) runs for an object that is already in the
\* loop's registry, whatever the mask, the registry and the reactor's records
\* (with their watches) stay as they are: the call aborts or returns false.
C22_Step ==
  \A l \in Loops :
    (reg[l] # NoReg /\ reg[l].cont = "user" /\ InRegistry(l, reg[l].obj))
      => (objects'[l] = objects[l] /\ robjects'[l] = robjects[l])
C22_DoubleRegisterFails == [][C22_Step]_vars

\* ------------------------------------------------------ inbox before Poll
\* Loop l goes from the head of the while or from its batch into reactor Poll.
CallsPoll(l) == pc[l] \notin {"poll", "polled"} /\ pc'[l] = "poll"

\* C23: when the loop calls reactor Poll, every closure that Execute has
\* appended to the inbox from another thread has been executed: none is left
\* in tasks_ or in the batch swapped out of it.
C23_Step ==
  \A l \in Loops : CallsPoll(l) => (tasks'[l] = <<>> /\ funcs'[l] = <<>>)
C23_PostedRunBeforePoll == [][C23_Step]_vars

\* A Register call for object o is between its entry and its return.
InRegister(o) == \E l \in Loops : reg[l] # NoReg /\ reg[l].obj = o

\* C24: outside a Register call, an object's unique id is >= 0 exactly while
\* the object is in a loop's registry, and -1 otherwise: before the first
\* Register, after Unregister, after a Register that failed, and after the
\* loop cleared its registry on leaving Run.
C24_IdIffRegistered ==
  \A o \in Objects :
    ~InRegister(o) =>
      /\ uid[o] >= 0 <=> \E l \in Loops : InRegistry(l, o)
      /\ uid[o] < 0 => uid[o] = -1

\* The reactor of loop l holds a read / a write watch for object o.
ReadWatch(l, o) ==
  uid[o] \in DOMAIN robjects[l] /\ robjects[l][uid[o]].ev_obj = o
                                /\ robjects[l][uid[o]].read
WriteWatch(l, o) ==
  uid[o] \in DOMAIN robjects[l] /\ robjects[l][uid[o]].ev_obj = o
                                /\ robjects[l][uid[o]].write
\* The watches of o agree with mask m.
Agrees(l, o, m) ==
  /\ ReadWatch(l, o) <=> kEventRead \in m
  /\ WriteWatch(l, o) <=> kEventWrite \in m

\* C25: Modify(obj, m) on an object in the loop's registry, registered with
\* whatever mask, leaves a read watch exactly when m has read and a write watch
\* exactly when m has write; when the watches already agree with m (a second
\* Modify(obj, m)) it changes nothing.
C25_Step ==
  \A o \in WatchObjs, m \in Masks :
    (UserModify("A", "L1", o, m) /\ InRegistry("L1", o) /\ ~aborted')
      => /\ Agrees("L1", o, m)'
         /\ Agrees("L1", o, m) => robjects' = robjects
C25_ModifyExact == [][C25_Step]_vars

\* C26: every record in a reactor's table holds at least one installed watch,
\* read or write. (A watch lives inside its record, so there is no watch
\* without a record.)
C26_RecordHasWatch ==
  \A l \in Loops : \A id \in DOMAIN robjects[l] :
    robjects[l][id].read \/ robjects[l][id].write

\* -------------------------------------------------- OnReadable / OnWritable
MaxDelivered == 4

\* The reactor of loop l holds a watch of kind k whose context is object o.
Watched(l, o, k) ==
  \E id \in DOMAIN robjects[l] :
    /\ robjects[l][id].ev_obj = o
    /\ IF k = kEventRead THEN robjects[l][id].read ELSE robjects[l][id].write

\* The calls one callback of the reactor makes on its object: the read or
\* write handler, and the error handler when that returned false.
HandlerCalls(k, ok) ==
  <<[call |-> k, ret |-> ok]>> \o
  (IF ok THEN <<>> ELSE <<[call |-> "error", ret |-> TRUE]>>)

\* Poll finds the descriptor of o ready for k and libevent calls the watch's
\* callback; ok is what the object's handler returns. The watch is persistent
\* (EV_PERSIST) and the callback leaves it installed.
Callback(l, o, k, ok) ==
  /\ ~aborted /\ LoopFree(l) /\ pc[l] \in {"poll", "polled"}
  /\ Watched(l, o, k)
  /\ Len(delivered[o]) + Len(HandlerCalls(k, ok)) <= MaxDelivered
  /\ delivered' = [delivered EXCEPT ![o] = @ \o HandlerCalls(k, ok)]
  /\ pc' = [pc EXCEPT ![l] = "polled"]
  /\ actor' = ctor[l]
  /\ UNCHANGED <<g_this_loop, ctor, ndebug, modret, aborted, running,
                 inboxVars, cliVars, logVars, regVars, timerVars, connVars>>

\* if (!obj->HandleReadEvent()) obj->HandleErrorEvent();
OnReadable(l, o, ok) == Callback(l, o, kEventRead, ok)
\* if (!obj->HandleWriteEvent()) obj->HandleErrorEvent();
OnWritable(l, o, ok) == Callback(l, o, kEventWrite, ok)

\* Loop L1 on thread A: A registers an object with every mask before Run,
\* and Poll delivers read and write events to it,
\* whose handlers return true or false.
NextDispatch ==
  \/ \E o \in WatchObjs, ev \in Masks : UserRegister("A", "L1", o, ev)
  \/ RunStart("L1") \/ RegisterStep("L1") \/ RunTryLock("L1") \/ PollReturn("L1")
  \/ \E o \in WatchObjs, ok \in BOOLEAN : OnReadable("L1", o, ok)
  \/ \E o \in WatchObjs, ok \in BOOLEAN : OnWritable("L1", o, ok)

SpecDispatch == InitState(OneLoop, 0, 0) /\ [][NextDispatch]_vars

\* C27: in the calls the reactor makes on an object, a read or write handler
\* that returned false is followed at once by the error handler, the error
\* handler is called once, and no call follows it.
C27_ErrorIsLast ==
  \A o \in Objects :
    \A i \in 1..Len(delivered[o]) :
      /\ ~delivered[o][i].ret =>
           i < Len(delivered[o]) /\ delivered[o][i + 1].call = "error"
      /\ delivered[o][i].call = "error" => i = Len(delivered[o])

\* ------------------------------------------------------------ Stop and exit
\* Loop L1 on thread A: A registers an object that is not registered yet,
\* before Run or from a closure, B and C post closures, any thread calls Stop,
\* and the loop runs until it leaves Run.
NextStop ==
  \/ \E ev \in Masks : uid["o1"] = -1 /\ UserRegister("A", "L1", "o1", ev)
  \/ \E t \in {"B", "C"} : Execute(t, "L1")
  \/ \E t \in Threads : PostLock(t) \/ PostNotify(t) \/ PostUnlock(t)
  \/ RunStart("L1") \/ RegisterStep("L1") \/ RunTryLock("L1") \/ RunTask("L1")
  \/ PollNotifier("L1") \/ PollReturn("L1")
  \/ \E t \in Threads : Stop(t, "L1")
  \/ RunExit("L1")

SpecStop == InitState(OneLoop, 0, 0) /\ [][NextStop]_vars
\* The loop's thread keeps taking the steps of Run, and a thread inside
\* Execute's critical section leaves it.
SpecStopFair == SpecStop /\ WF_vars(LoopSteps) /\ WF_vars(SubmitterSteps)

\* Stop has been called and the loop's thread is inside Run.
StoppedInRun(l) == ~running[l] /\ pc[l] \notin {"init", "exited"}
\* Run has returned with nothing left in the registry or in the reactor's
\* table, and the reactor torn down.
ReturnedClean(l) ==
  /\ pc[l] = "exited"
  /\ objects[l] = Empty /\ robjects[l] = Empty /\ ~reactor[l]

\* C28: once Stop has been called on a loop that is inside Run, Run returns;
\* and whenever Run has returned, every object is unregistered from the
\* reactor, the registry is empty and the reactor is torn down.
C28_StopEndsRun ==
  /\ [](pc["L1"] = "exited" => ReturnedClean("L1"))
  /\ StoppedInRun("L1") ~> ReturnedClean("L1")

\* L1 ran a closure that B posted, with o1 registered with a read watch, was
\* stopped, and has left Run with o1 gone from the registry.
C28_Witness ==
  /\ ReturnedClean("L1")
  /\ uid["o1"] >= 0
  /\ \E i \in 1..Len(ran) : ran[i].on = "A" /\ ran[i].task.by = "B"

\* The reactor's timer table holds the record that schedule call n armed.
HasRecord(n) ==
  \E id \in DOMAIN timers[sched[n].loop] : timers[sched[n].loop][id].n = n
\* In this step the callback of schedule call n's timer runs and cancels its
\* own id.
CancelsItself(n) ==
  /\ Len(ran') = Len(ran) + 1
  /\ LET c == ran'[Len(ran')].task IN
     c.kind = "timer" /\ c.n = n /\ cancels'[c.k].n = n

\* C29: a one-shot timer's callback is invoked at most once, and once it has
\* returned the timer's record is out of the reactor's table. A callback is
\* only invoked for a record that is in the table; a callback during which
\* its own record is cancelled runs to the end (the invocation counts) and
\* leaves no record behind, so that it is not invoked again.
C29_Once ==
  \A n \in 1..Len(sched) :
    ~sched[n].repeat => fired[n] <= 1 /\ (fired[n] = 1 => ~HasRecord(n))
C29_Step ==
  \A n \in 1..Len(sched) :
    /\ fired'[n] # fired[n] => HasRecord(n) /\ fired'[n] = fired[n] + 1
    /\ CancelsItself(n) => fired'[n] = fired[n] + 1 /\ ~HasRecord(n)'
C29_TimerCallbacks == []C29_Once /\ [][C29_Step]_vars

\* A one-shot timer has fired once, and a repeating timer was cancelled with
\* true from inside its own callback.
C29_Witness ==
  /\ \E n \in 1..Len(sched) : ~sched[n].repeat /\ fired[n] = 1
  /\ \E c \in CallbackCancels :
       cancels[c.k].n = c.n /\ sched[c.n].repeat /\ cancels[c.k].res = "true"

\* ------------------------------------------------------------- idle check
\* Loop L1 on thread A: A connects c1 and sets its idle threshold before Run,
\* the connection is established, receives data or is lost, the clock
\* advances and Poll fires the idle timer.
NextIdle ==
  \/ Connect("A", "L1", "c1")
  \/ \E ms \in IdleTimeouts : Len(sched) < MaxCalls /\ SetIdleTimeout("A", "c1", ms)
  \/ RunStart("L1") \/ RegisterStep("L1") \/ RunTryLock("L1") \/ PollReturn("L1")
  \/ \E ev \in BevEvents : OnEvent("c1", ev)
  \/ OnRecvData("c1", 1, <<1>>, FALSE)
  \/ Tick
  \/ \E id \in -(TimerIdMax + 1)..TimerIdMax : Elapse("L1", id) \/ PollTimer("L1", id)

SpecIdle == InitState(OneLoop, 0, 0) /\ [][NextIdle]_vars

\* In this step the idle timer of connection c fires.
IdleCheckFires(c) ==
  \E n \in 1..Len(sched) : sched[n].conn = c /\ fired'[n] = fired[n] + 1
\* ms since the last activity on c
Elapsed(c) == 100 * (now - last_active[c])

\* C30: a fire of the idle check on a Connected connection closes it exactly
\* when the time elapsed since last_active is at least the idle threshold; an
\* elapsed time equal to the threshold closes it.
C30_Step ==
  \A c \in Conns :
    (IdleCheckFires(c) /\ cstate[c] = kConnected /\ ~aborted')
      => (cstate'[c] = kDisconnected <=> Elapsed(c) >= idle_timeout_ms[c])
C30_ClosesAtThreshold == [][C30_Step]_vars

\* ------------------------------------------------------ resetting the idle timer
\* Loop L1 on thread A with connection c1: A (before Run or from a closure)
\* and B call SetIdleTimeout on c1, one call after the other, and the loop
\* runs the closures they post.
MaxResets == 2
NextReset ==
  \/ Connect("A", "L1", "c1")
  \/ \E t \in {"A", "B"}, ms \in IdleTimeouts :
       /\ Len(sched) < MaxResets /\ tpc["B"] = "idle"
       /\ SetIdleTimeout(t, "c1", ms)
  \/ \E t \in Threads : SetIdleTimeoutSchedule(t) \/ SetIdleTimeoutStore(t)
  \/ \E t \in Threads : PostLock(t) \/ PostNotify(t) \/ PostUnlock(t)
  \/ RunStart("L1") \/ RegisterStep("L1") \/ RunTryLock("L1") \/ RunTask("L1")
  \/ PollNotifier("L1") \/ PollReturn("L1")

SpecReset == InitState(OneLoop, 0, 0) /\ [][NextReset]_vars

\* The ids of the idle-check timers of connection c armed in its loop's reactor.
IdleArmed(c) ==
  {id \in DOMAIN timers[cloop[c]] : sched[timers[cloop[c]][id].n].conn = c}
\* No SetIdleTimeout call is under way and the loop has run every closure
\* posted to it.
Settled(l) ==
  /\ \A t \in Threads : tpc[t] = "idle"
  /\ tasks[l] = <<>> /\ funcs[l] = <<>>

\* C31: once the SetIdleTimeout calls made on a connection have returned and
\* their closures have run, at most one idle-check timer of the connection is
\* armed in the reactor, and it is the one whose id the connection stores.
C31_OneIdleTimer ==
  \A c \in Conns :
    (cstate[c] # Unborn /\ Settled(cloop[c])) => IdleArmed(c) \subseteq {idle_timer[c]}

\* ------------------------------------------------------ accepted connections
\* Loop L2 on thread B listens and its selector hands each accepted descriptor
\* to itself or to loop L1 on thread A; L1 runs, and any thread stops it.
NextAccept ==
  \/ Listen("B", "L2")
  \/ \E target \in {"L1", "L2"} : OnNewConnection("L2", target, "c1")
  \/ \E t \in Threads : PostLock(t) \/ PostNotify(t) \/ PostUnlock(t)
  \/ \E l \in {"L1", "L2"} : RunStart(l) \/ RegisterStep(l) \/ RunTryLock(l)
  \/ RunTask("L1") \/ PollNotifier("L1") \/ PollReturn("L1")
  \/ \E t \in Threads : Stop(t, "L1")
  \/ RunExit("L1")

SpecAccept == InitState(TwoLoops, 0, 0) /\ [][NextAccept]_vars
\* Both loops' threads keep running, and the listener's thread goes through
\* Execute once it is in it.
AcceptTargetSteps ==
  \/ RunStart("L1") \/ RegisterStep("L1") \/ RunTryLock("L1") \/ RunTask("L1")
  \/ PollNotifier("L1") \/ PollReturn("L1") \/ RunExit("L1")
AcceptListenerSteps == RunStart("L2") \/ RegisterStep("L2") \/ RunTryLock("L2")
AcceptPostSteps == \E t \in Threads : PostLock(t) \/ PostNotify(t) \/ PostUnlock(t)
SpecAcceptFair ==
  /\ SpecAccept
  /\ WF_vars(AcceptTargetSteps) /\ WF_vars(AcceptListenerSteps) /\ WF_vars(AcceptPostSteps)

\* OnNewConnection has taken the descriptor of connection c.
Accepted(c) == InFlight(c) \/ cstate[c] # Unborn
\* Connection c is Connected, its on_new_conn ran once, and it is in the
\* registry of its loop and of no other.
Established(c) ==
  /\ cstate[c] = kConnected
  /\ trace[c] = <<on_new_conn(c)>>
  /\ \A l \in Loops : InRegistry(l, c) <=> l = cloop[c]

\* C32: every descriptor the listener accepts becomes one connection, made on
\* the thread of the loop the selector returned, which is Connected, has had
\* on_new_conn called once and is in that loop's registry and in no other.
C32_Step ==
  \A c \in Conns :
    (cstate[c] = Unborn /\ cstate'[c] # Unborn)
      => /\ actor' = LoopThread(cloop'[c])
         /\ cstate'[c] = kConnected
         /\ trace'[c] = <<on_new_conn(c)>>
C32_AcceptedIsConnected ==
  /\ [][C32_Step]_vars
  /\ \A c \in {"c1"} : Accepted(c) ~> Established(c)

\* ------------------------------------------------- the remote side ends
\* The events with which the bufferevent reports that the remote side ended
\* the connection: end of file, and an error (a reset) without end of file.
RemoteEnds == {BEV_EVENT_EOF, BEV_EVENT_ERROR}

\* OnEvent(ev) on connection c in state Connected has closed it: it is
\* Disconnected, on_disconnect was invoked and it has left the registry.
ClosedBy(c) ==
  /\ cstate'[c] = kDisconnected
  /\ Invokes(c, "on_disconnect")
  /\ ~Registered(c)'

\* C33: in state Connected every event that reports the end of the connection
\* from the remote side, end of file as well as an error without the end of
\* file flag, makes the connection Disconnected, invokes on_disconnect and
\* takes it out of the registry.
C33_Step ==
  \A c \in LifeConns, ev \in RemoteEnds :
    (cstate[c] = kConnected /\ OnEvent(c, ev)) => ClosedBy(c)
C33_RemoteEndCloses == [][C33_Step]_vars

\* ------------------------------------------------- the per-thread loop slot
\* EventLoop::Reset() of loop l by thread t, outside Run: Unregister for every
\* object of the registry, then the registry and the inbox are cleared and a
\* new reactor and a new notifier are made. Unregister asserts the thread, and
\* it erases from the registry that Reset is iterating over: with a non-empty
\* registry the call may as well end the process.
Reset(t, l) ==
  /\ ~aborted /\ ctor[l] # NoThread /\ AtUserCode(t)
  /\ pc[l] \in {"init", "exited"} /\ task_mutex[l] = Free /\ reg[l] = NoReg
  /\ IF objects[l] # Empty /\ reactor[l]
     THEN IF ~ndebug /\ ~InThisLoop(l, t) THEN aborted' = TRUE
          ELSE aborted' \in BOOLEAN
     ELSE aborted' = FALSE
  /\ objects' = [objects EXCEPT ![l] = Empty]
  /\ robjects' = [robjects EXCEPT ![l] = Empty]
  /\ timers' = [timers EXCEPT ![l] = Empty]
  /\ tasks' = [tasks EXCEPT ![l] = <<>>]
  /\ reactor' = [reactor EXCEPT ![l] = TRUE]
  /\ pipe' = [pipe EXCEPT ![l] = 0]
  /\ uid' = [uid EXCEPT ![Notifier(l)] = -1]
  /\ actor' = t
  /\ UNCHANGED <<thrVars, loopVars, task_mutex, funcs, cliVars, logVars,
                 obj_id_generator, reg, timerid_generator, sched, cancels,
                 fired, connVars>>

\* ~EventLoop() = default for loop l, outside Run: the members go, and the
\* thread's slot is left as it is.
Destroy_EventLoop(l) ==
  /\ ~aborted /\ ctor[l] # NoThread /\ LoopFree(l)
  /\ pc[l] \in {"init", "exited"} /\ task_mutex[l] = Free
  /\ pc' = [pc EXCEPT ![l] = "destroyed"]
  /\ objects' = [objects EXCEPT ![l] = Empty]
  /\ robjects' = [robjects EXCEPT ![l] = Empty]
  /\ timers' = [timers EXCEPT ![l] = Empty]
  /\ tasks' = [tasks EXCEPT ![l] = <<>>]
  /\ reactor' = [reactor EXCEPT ![l] = FALSE]
  /\ actor' = ctor[l]
  /\ UNCHANGED <<thrVars, aborted, running, task_mutex, funcs, pipe, cliVars,
                 logVars, uid, obj_id_generator, reg, timerid_generator, sched,
                 cancels, fired, connVars>>

\* Threads A and B construct loops, listen on them, run them, stop them, reset
\* them and destroy them, in a build with asserts or without.
SlotLoops == {"L1", "L2"}
NextSlot ==
  \/ \E t \in {"A", "B"}, l \in SlotLoops : Construct(t, l)
  \/ \E l \in SlotLoops : pc[l] = "init" /\ Listen(ctor[l], l)
  \/ \E l \in SlotLoops : RunStart(l) \/ RegisterStep(l) \/ RunTryLock(l)
  \/ \E l \in SlotLoops : PollNotifier(l) \/ PollReturn(l) \/ RunExit(l)
  \/ \E t \in {"A", "B"}, l \in SlotLoops : pc[l] # "destroyed" /\ Stop(t, l)
  \/ \E t \in {"A", "B"}, l \in SlotLoops : pc[l] # "destroyed" /\ Reset(t, l)
  \/ \E l \in SlotLoops : Destroy_EventLoop(l)

InitSlot == \E nd \in BOOLEAN : InitBuild(NoLoops, 0, 0, nd)
SpecSlot == InitSlot /\ [][NextSlot]_vars

\* C34: the slot of a thread is written by the constructor only and never
\* cleared: once a thread has constructed a loop, Self() on it is that loop
\* for good, after Run returned, after Reset and after the loop is destroyed,
\* and no other loop is constructed on that thread.
C34_Step ==
  /\ g_this_loop' # g_this_loop => \E t \in Threads, l \in Loops : Construct(t, l)
  /\ \A t \in Threads :
       Self(t) # NoLoop => (Self(t)' = Self(t) /\ LoopsOf(t)' = LoopsOf(t))
C34_SlotIsForGood == [][C34_Step]_vars

\* ------------------------------------------------------------- the self-pipe
\* Loop L1 on thread A, built with or without asserts. B and C post closures
\* and every thread calls Stop, each with its Notify; A registers an object of
\* its own before Run and changes its mask in closures; the loop runs.
NextNotify ==
  \/ \E t \in {"B", "C"} : Execute(t, "L1")
  \/ \E t \in Threads : PostLock(t) \/ PostNotify(t) \/ PostUnlock(t)
  \/ \E t \in Threads : Stop(t, "L1")
  \/ \E ev \in Masks : uid["o1"] = -1 /\ UserRegister("A", "L1", "o1", ev)
  \/ \E ev \in Masks : UserModify("A", "L1", "o1", ev)
  \/ RunStart("L1") \/ RegisterStep("L1") \/ RunTryLock("L1") \/ RunTask("L1")
  \/ PollNotifier("L1") \/ PollReturn("L1") \/ RunExit("L1")

SpecNotify == InitLife /\ [][NextNotify]_vars

\* C35: the read handler of a loop's notifier is called only with a byte in
\* the self-pipe, takes exactly one byte and returns true, so the error
\* handler is not called; nothing else takes bytes out of the pipe; and the
\* reactor never holds a write watch for the notifier, so its write handler
\* is not called: whatever the order of the Notify calls of several threads,
\* dropped ones included, and the loop's turns.
C35_NoWriteWatch ==
  \A l \in Loops :
    /\ ~Watched(l, Notifier(l), kEventWrite)
    /\ pipe[l] \in 0..PipeCap
C35_Step ==
  \A l \in Loops :
    /\ PollNotifier(l) =>
         /\ pipe[l] >= 1 /\ pipe'[l] = pipe[l] - 1
         /\ HandleReadEvent(pipe[l]) /\ ~aborted'
    /\ pipe'[l] < pipe[l] => PollNotifier(l)
====
